---- MODULE Spec2Model ----
(***************************************************************************)
(* The vote-plan ledger of chain-impl-mockchain (vote/ledger.rs): a        *)
(* persistent map VotePlanId -> VotePlanManager with the four operations   *)
(* add_vote_plan, apply_vote, apply_encrypted_vote_tally and               *)
(* apply_committee_result.  Every operation takes the ledger by shared     *)
(* reference and returns a Result holding a new ledger or an error.        *)
(***************************************************************************)
EXTENDS Integers, Sequences, FiniteSets, TLC

VARIABLES head, receiver, last, now, governance, election, decoding, wire,
          storage, pools

vars == <<head, receiver, last, now, governance, election, decoding, wire,
          storage, pools>>

(***************************************************************************)
(* Bounds of the model.                                                    *)
(***************************************************************************)
\* block dates at which operations are called: 0..MaxDate
MaxDate == 4
\* the model stops inserting once the ledger holds MaxPlans plans
MaxPlans == 2

(***************************************************************************)
(* Dates of the vote plan built by VoteTestGen::vote_plan and              *)
(* VoteTestGen::private_vote_plan.                                         *)
(***************************************************************************)
TestVoteStart == 1
TestVoteEnd == 2
TestCommitteeEnd == 3

\* BlockDate: a totally ordered logical clock; the ledger only compares dates.
Dates == 0..MaxDate

PlanDates == TestVoteStart..TestCommitteeEnd

PayloadTypes == {"Public", "Private"}

\* committee_public_keys of a plan: no key, or the keys of the members 1 and 2
KeyLists == {<<>>, <<1, 2>>}

Accounts == {"a1"}

CommitteeIds == {"c1", "c2"}

\* the committee handed to add_vote_plan
Committees == {{"c1"}}

Choices == {0, 1}

NoChoice == -1

\* VotePlan: every plan whose vote_start and vote_end lie in PlanDates, in any
\* order, with one proposal
Plans ==
  [vote_start : PlanDates, vote_end : PlanDates,
   committee_end : {TestCommitteeEnd}, proposals : {1},
   payload_type : PayloadTypes, committee_public_keys : KeyLists]

\* the plans the driver offers to the ledger: the public and the private plan
\* of the test generator, and the public plan whose vote_start and vote_end are
\* exchanged; and the private plans of these dates without a committee key
OfferedDates ==
  { <<TestVoteStart, TestVoteEnd, TestCommitteeEnd>>,
    <<TestVoteEnd, TestVoteStart, TestCommitteeEnd>> }

OfferedPlans ==
  { p \in Plans :
      /\ <<p.vote_start, p.vote_end, p.committee_end>> \in OfferedDates
      /\ (p.payload_type = "Public" => p.committee_public_keys = <<>>)
      /\ (p.payload_type = "Private" /\ p.committee_public_keys # <<>> =>
            p.vote_start = TestVoteStart) }

PayloadTypeByte(t) == IF t = "Public" THEN 0 ELSE 1

\* VotePlan::to_id: a digest of the canonical serialization of the plan; the
\* digest is collision resistant, so the id is modelled by the serialization
to_id(plan) ==
  <<plan.vote_start, plan.vote_end, plan.committee_end, plan.proposals,
    PayloadTypeByte(plan.payload_type), Len(plan.committee_public_keys)>>
    \o plan.committee_public_keys

PlanIds == { to_id(p) : p \in Plans }

(***************************************************************************)
(* imhamt::Hamt, the persistent map under the ledger.  insert and update   *)
(* return a new map and leave the map they are called on as it is.         *)
(***************************************************************************)
Hamt_new == <<>>

Hamt_insert(h, k, v) ==
  IF k \in DOMAIN h
    THEN [ok |-> FALSE, reason |-> "EntryExists"]
    ELSE [ok |-> TRUE,
          map |-> [x \in DOMAIN h \cup {k} |-> IF x = k THEN v ELSE h[x]]]

\* lookup gives the value stored under k, if any: a set of at most one value
Hamt_lookup(h, k) == { h[x] : x \in DOMAIN h \cap {k} }

\* update calls F on the value stored under k; F is not called when k is
\* absent.  F is a function on Hamt_lookup(h, k).
Hamt_update(h, k, F) ==
  IF k \notin DOMAIN h
    THEN [ok |-> FALSE, reason |-> "KeyNotFound"]
    ELSE LET r == F[h[k]]
         IN  IF r.ok
               THEN [ok |-> TRUE, map |-> [h EXCEPT ![k] = r.value]]
               ELSE [ok |-> FALSE, reason |-> r.reason]

\* remove gives the map without k, or KeyNotFound
Hamt_remove(h, k) ==
  IF k \notin DOMAIN h
    THEN [ok |-> FALSE, reason |-> "KeyNotFound"]
    ELSE [ok |-> TRUE, map |-> [x \in DOMAIN h \ {k} |-> h[x]]]

(***************************************************************************)
(* chain-evm (state/trie.rs): Trie, a Hamt behind put, get and remove.     *)
(* put and remove take the trie by value and return the new one; panic     *)
(* tells that an expect or the unreachable! of the function was hit.       *)
(***************************************************************************)
Trie_new == Hamt_new

Trie_get(self, key) == Hamt_lookup(self, key)

\* a put that inserts and keeps the trie when the key is there already
Trie_put_keeping(self, key, value) ==
  LET r == Hamt_insert(self, key, value)
  IN  [panic |-> FALSE, trie |-> IF r.ok THEN r.map ELSE self]

Trie_put(self, key, value) ==
  LET r == IF key \in DOMAIN self
             THEN Hamt_update(self, key,
                              [v \in Hamt_lookup(self, key) |->
                                 [ok |-> TRUE, value |-> value]])
             ELSE Hamt_insert(self, key, value)
  IN  IF r.ok
        THEN [panic |-> FALSE, trie |-> r.map]
        ELSE [panic |-> TRUE, trie |-> self]

Trie_remove(self, key) ==
  LET r == Hamt_remove(self, key)
  IN  IF r.ok
        THEN [panic |-> FALSE, trie |-> r.map]
        ELSE IF r.reason = "KeyNotFound"
          THEN [panic |-> FALSE, trie |-> self]
          ELSE [panic |-> TRUE, trie |-> self]

(***************************************************************************)
(* chain-vote (lib.rs): the encrypted tally and its decoding.  The group   *)
(* of gang::GroupElement is modelled by the integers modulo GroupOrder     *)
(* under addition, with generator 1: the element k stands for k * g.  A    *)
(* Scalar is an integer modulo GroupOrder.                                 *)
(***************************************************************************)
GroupOrder == 23

GroupElement == 0..(GroupOrder - 1)

GroupElement_generator == 1

GroupElement_zero == 0

GroupElement_add(a, b) == (a + b) % GroupOrder

GroupElement_sub(a, b) == (a + GroupOrder - b) % GroupOrder

\* GroupElement * Scalar
GroupElement_mul(a, k) == (a * k) % GroupOrder

RECURSIVE GroupElement_sum(_)
GroupElement_sum(elements) ==
  IF elements = <<>>
    THEN GroupElement_zero
    ELSE GroupElement_add(Head(elements), GroupElement_sum(Tail(elements)))

\* GroupElement::table(k): the sequence g, 2g, ..., k * g
GroupElement_table(table_size) ==
  [i \in 1..table_size |-> GroupElement_mul(GroupElement_generator, i)]

Scalar_from_u64(n) == n % GroupOrder

Ciphertext_zero == [e1 |-> GroupElement_zero, e2 |-> GroupElement_zero]

Ciphertext_add(a, b) ==
  [e1 |-> GroupElement_add(a.e1, b.e1), e2 |-> GroupElement_add(a.e2, b.e2)]

Ciphertext_mul(a, k) ==
  [e1 |-> GroupElement_mul(a.e1, k), e2 |-> GroupElement_mul(a.e2, k)]

\* ElGamal encryption of the message m * g to the public key pk with the
\* random scalar r
encrypt(pk, m, r) ==
  [e1 |-> GroupElement_mul(GroupElement_generator, r),
   e2 |-> GroupElement_add(GroupElement_mul(GroupElement_generator, m),
                           GroupElement_mul(pk, r))]

\* the committee members and the secret key sk of each of them
Members == {1, 2}

MemberSecretKey(i) == IF i = 1 THEN 3 ELSE 5

\* pk = g^sk
MemberPublicKey(i) == GroupElement_mul(GroupElement_generator, MemberSecretKey(i))

\* ElectionPublicKey::from_participants: the product of the public keys of
\* the participants (the sum, in the additive notation of the model)
ElectionPublicKey_from_participants(pks) == GroupElement_sum(pks)

\* UnitVector: the vote for option i of n options, options counted from 0
UnitVector(n, i) == [j \in 1..n |-> IF j = i + 1 THEN 1 ELSE 0]

\* EncryptingVote::prepare: one ciphertext for each slot of the unit vector,
\* slot j with the random scalar coins[j]
EncryptingVote_prepare(pk, vote, coins) ==
  [j \in 1..Len(vote) |-> encrypt(pk, vote[j], coins[j])]

\* shvzk::prove: the proof is modelled by what it proves knowledge of, the
\* unit vector and the random scalars of the ciphertexts
shvzk_prove(pk, ev) ==
  [unit_vector |-> ev.unit_vector, random_elements |-> ev.random_elements]

\* shvzk::verify: the ciphertexts are the encryption, to pk, of a unit vector
shvzk_verify(pk, ciphertexts, proof) ==
  /\ Len(proof.unit_vector) = Len(ciphertexts)
  /\ Len(proof.random_elements) = Len(ciphertexts)
  /\ \E i \in 0..(Len(ciphertexts) - 1) :
       proof.unit_vector = UnitVector(Len(ciphertexts), i)
  /\ \A j \in 1..Len(ciphertexts) :
       ciphertexts[j] = encrypt(pk, proof.unit_vector[j],
                                proof.random_elements[j])

\* the random scalars rng gives when it is asked once more
reseeded(rng) == [j \in DOMAIN rng |-> (rng[j] + 1) % GroupOrder]

\* encrypt_vote giving the ciphertexts of another encryption of the vote
encrypt_vote_reencrypting(rng, public_key, vote) ==
  LET ev == [unit_vector |-> vote,
             ciphertexts |-> EncryptingVote_prepare(public_key, vote, rng),
             random_elements |-> rng]
      proof == shvzk_prove(public_key, ev)
  IN  [ciphertexts |-> EncryptingVote_prepare(public_key, vote, reseeded(rng)),
       proof |-> proof]

\* encrypt_vote (lib.rs:62-70); rng is the sequence of the random scalars
\* that prepare draws
encrypt_vote(rng, public_key, vote) ==
  LET ev == [unit_vector |-> vote,
             ciphertexts |-> EncryptingVote_prepare(public_key, vote, rng),
             random_elements |-> rng]
      proof == shvzk_prove(public_key, ev)
  IN  [ciphertexts |-> ev.ciphertexts, proof |-> proof]

\* verify_vote (lib.rs:74-80)
verify_vote(public_key, vote, proof) == shvzk_verify(public_key, vote, proof)

\* EncryptedTally::new
EncryptedTally_new(options) == [i \in 1..options |-> Ciphertext_zero]

\* EncryptedTally::add, the assert_eq of its first line (lib.rs:144)
add_assert_none(tally, vote) == TRUE

add_assert_eq(tally, vote) == Len(vote) = Len(tally)

\* the loop of add putting the weighted vote in the place of the slot
EncryptedTally_add_overwriting(tally, vote, weight) ==
  [i \in 1..Len(tally) |->
     IF i <= Len(vote)
       THEN Ciphertext_mul(vote[i], Scalar_from_u64(weight))
       ELSE tally[i]]

\* EncryptedTally::add, the loop (lib.rs:145-147): zip ends with the shorter
\* of the two, so a slot without a ciphertext of the vote stays as it is
EncryptedTally_add(tally, vote, weight) ==
  [i \in 1..Len(tally) |->
     IF i <= Len(vote)
       THEN Ciphertext_add(tally[i],
                           Ciphertext_mul(vote[i], Scalar_from_u64(weight)))
       ELSE tally[i]]

\* EncryptedTally::add as a call: the tally after it, or the panic of the
\* assert_eq, which leaves the tally as it was
EncryptedTally_add_call(tally, vote, weight) ==
  IF add_assert_eq(tally, vote)
    THEN [panic |-> FALSE, r |-> EncryptedTally_add(tally, vote, weight)]
    ELSE [panic |-> TRUE, r |-> tally]

\* EncryptedTally::finish: the TallyState and the TallyDecryptShare of the
\* member with the secret key sk
\* a finish that takes the two elements of a slot the other way round
EncryptedTally_finish_swapped(tally, sk) ==
  [state |-> [i \in 1..Len(tally) |-> tally[i].e1],
   share |-> [i \in 1..Len(tally) |-> GroupElement_mul(tally[i].e2, sk)]]

EncryptedTally_finish(tally, sk) ==
  [state |-> [i \in 1..Len(tally) |-> tally[i].e2],
   share |-> [i \in 1..Len(tally) |-> GroupElement_mul(tally[i].e1, sk)]]

\* EncryptedTally::state
EncryptedTally_state(tally) == [i \in 1..Len(tally) |-> tally[i].e2]

\* An Option<u64>: <<>> is None, <<v>> is Some(v)
None == <<>>

Some(v) == <<v>>

\* a search that reports the position in the table, counted from 0
find_votes_position(r, table_size, vote_left) ==
  LET in_table == { i \in 1..table_size :
                      GroupElement_mul(GroupElement_generator, i) = r }
  IN  IF r = GroupElement_zero
        THEN [panic |-> FALSE, found |-> Some(0), steps |-> 0]
      ELSE IF in_table # {}
        THEN [panic |-> FALSE,
              found |-> Some((CHOOSE i \in in_table :
                                \A j \in in_table : i <= j) - 1),
              steps |-> 0]
      ELSE [panic |-> FALSE, found |-> None, steps |-> 0]

\* a search that looks at the budget before the zero and before the table,
\* and gives up where the budget ends
find_votes_budget_first(r, table_size, vote_left) ==
  LET in_table == { i \in 1..table_size :
                      /\ GroupElement_mul(GroupElement_generator, i) = r
                      /\ i < vote_left }
  IN  IF r = GroupElement_zero /\ vote_left > 0
        THEN [panic |-> FALSE, found |-> Some(0), steps |-> 0]
      ELSE IF in_table # {}
        THEN [panic |-> FALSE,
              found |-> Some(CHOOSE i \in in_table : \A j \in in_table : i <= j),
              steps |-> 0]
      ELSE [panic |-> FALSE, found |-> None, steps |-> 0]

\* result, the search for the votes of one slot (lib.rs:253-282): zero, then
\* the table, then one step of g after the other while i < vote_left.
\* vote_left is a u64: a value below 0 stands for the value that
\* wraps around, which is above every i.  With an empty table the index
\* table_size - 1 of the first step is out of the table: a panic.  steps
\* counts the additions e = e + gen of the loop.
find_votes(r, table_size, vote_left) ==
  LET table == GroupElement_table(table_size)
      in_table == { i \in 1..table_size : table[i] = r }
      limit == IF vote_left < 0
                 THEN table_size + GroupOrder
                 ELSE vote_left - 1
      stepped == { i \in (table_size + 1)..limit :
                     GroupElement_mul(GroupElement_generator, i) = r }
      first == CHOOSE i \in stepped : \A j \in stepped : i <= j
  IN  IF r = GroupElement_zero
        THEN [panic |-> FALSE, found |-> Some(0), steps |-> 0]
      ELSE IF in_table # {}
        THEN [panic |-> FALSE,
              found |-> Some(CHOOSE i \in in_table : \A j \in in_table : i <= j),
              steps |-> 0]
      ELSE IF table_size = 0
        THEN [panic |-> TRUE, found |-> None, steps |-> 0]
      ELSE IF stepped # {}
        THEN [panic |-> FALSE, found |-> Some(first),
              steps |-> first - (table_size + 1)]
      ELSE [panic |-> FALSE, found |-> None,
            steps |-> IF limit > table_size THEN limit - table_size ELSE 0]

\* result, the loop over the slots (lib.rs:248-291): votes are the votes
\* found so far, overflow says that vote_left -= votes_found went below 0.
\* The slots are taken in their order, the first half of them and then the
\* second half from the budget the first half left, so that a tally state
\* of 256 slots is decoded as one of 2 is.
RECURSIVE decode_slots(_, _, _, _, _)
decode_slots(r_results, table_size, vote_left, votes, overflow) ==
  IF r_results = <<>>
    THEN [votes |-> votes, overflow |-> overflow, panic |-> FALSE,
          vote_left |-> vote_left, steps |-> 0]
  ELSE IF Len(r_results) = 1
    THEN LET slot == find_votes(r_results[1], table_size, vote_left)
         IN  IF slot.panic
               THEN [votes |-> votes, overflow |-> overflow, panic |-> TRUE,
                     vote_left |-> vote_left, steps |-> slot.steps]
             ELSE IF slot.found = None
               THEN [votes |-> Append(votes, None), overflow |-> overflow,
                     panic |-> FALSE, vote_left |-> vote_left,
                     steps |-> slot.steps]
               ELSE [votes |-> Append(votes, slot.found),
                     overflow |-> overflow \/ slot.found[1] > vote_left,
                     panic |-> FALSE,
                     vote_left |-> vote_left - slot.found[1],
                     steps |-> slot.steps]
  ELSE LET half == Len(r_results) \div 2
           first == decode_slots(SubSeq(r_results, 1, half), table_size,
                                 vote_left, votes, overflow)
           second == decode_slots(SubSeq(r_results, half + 1, Len(r_results)),
                                  table_size, first.vote_left, first.votes,
                                  first.overflow)
       IN  IF first.panic
             THEN first
             ELSE [second EXCEPT !.steps = @ + first.steps]

\* result (lib.rs:228-296).  decrypt_shares is the slice of TallyDecryptShare.
\* The field overflow is TRUE when a subtraction from vote_left went below 0:
\* a build with overflow checks panics there, a build without them goes on
\* with the wrapped value, which is the result given here.  The field panic
\* is TRUE when every build panics; votes are then the votes found before.
\* The field steps is the number of additions the loops of the call made.
result(max_votes, table_size, tally_state, decrypt_shares) ==
  LET options == Len(tally_state)
      ris == [i \in 1..options |->
                GroupElement_sum([k \in 1..Len(decrypt_shares) |->
                                    decrypt_shares[k][i]])]
      r_results == [i \in 1..options |->
                      GroupElement_sub(tally_state[i], ris[i])]
      slots == decode_slots(r_results, table_size, max_votes, <<>>, FALSE)
  IN  [votes |-> slots.votes,
       options |-> [start |-> 0, end |-> options % 256],
       overflow |-> slots.overflow,
       panic |-> slots.panic,
       steps |-> slots.steps]

(***************************************************************************)
(* VotePlanManager: the per-plan state machine.                            *)
(***************************************************************************)
\* the options of every proposal are the choices 0 .. NumOptions - 1
NumOptions == Cardinality(Choices)

\* the stake of an account, which is the weight of its vote
Stake(a) == 10

\* max_votes and table_size of the decoding (as in the tests encdec1, encdec3)
TestMaxVotes == 20
TestTableSize == 5

\* the election key of a plan: committee_public_keys names the members
ElectionKey(plan) ==
  ElectionPublicKey_from_participants(
    [k \in 1..Len(plan.committee_public_keys) |->
       MemberPublicKey(plan.committee_public_keys[k])])

\* the random scalars of the slots of an encrypted vote
Coins == [j \in 1..NumOptions |-> j]

\* the EncryptedVote of a private payload for the choice
EncryptedVoteOf(plan, choice) ==
  EncryptingVote_prepare(ElectionKey(plan), UnitVector(NumOptions, choice), Coins)

\* the encrypted tally of one proposal: the vote each account holds is added
\* with the stake of the account
RECURSIVE TallyEncrypted(_, _, _)
TallyEncrypted(plan, votes, voters) ==
  IF voters = {}
    THEN EncryptedTally_new(NumOptions)
    ELSE LET a == CHOOSE x \in voters : TRUE
             rest == TallyEncrypted(plan, votes, voters \ {a})
         IN  IF votes[a] = NoChoice
               THEN rest
               ELSE EncryptedTally_add(rest, EncryptedVoteOf(plan, votes[a]),
                                       Stake(a))

\* the stake behind the choice among the votes of one proposal
RECURSIVE StakeFor(_, _, _)
StakeFor(choice, votes, voters) ==
  IF voters = {}
    THEN 0
    ELSE LET a == CHOOSE x \in voters : TRUE
         IN  (IF votes[a] = choice THEN Stake(a) ELSE 0)
               + StakeFor(choice, votes, voters \ {a})

\* the votes of a TallyResult made by counting the public votes of a proposal
TallyPublic(votes) ==
  [o \in 1..NumOptions |-> Some(StakeFor(o - 1, votes, Accounts))]

\* the governance hook f is called with the action of each proposal in turn
HookCalls(plan) == [k \in 1..plan.proposals |-> k - 1]

VotePlanManager_new(plan, committee) ==
  [plan |-> plan,
   committee |-> committee,
   status |-> "Voting",
   votes |-> [i \in 0..(plan.proposals - 1) |-> [a \in Accounts |-> NoChoice]],
   encrypted_tallies |->
     [i \in 0..(plan.proposals - 1) |->
        IF plan.payload_type = "Private"
          THEN EncryptedTally_new(NumOptions) ELSE <<>>],
   result |-> <<>>]

\* the payloads of a VoteCast: a public choice, or an encrypted vote with a
\* proof that verifies or not
Payloads ==
  [type : {"Public"}, choice : Choices, proof_ok : {TRUE}]
    \cup [type : {"Private"}, choice : Choices, proof_ok : {TRUE}]
    \cup [type : {"Private"}, choice : {0}, proof_ok : {FALSE}]

\* VotePlanManager::vote
Manager_vote(m, block_date, identifier, cast) ==
  IF cast.vote_plan # to_id(m.plan)
    THEN [ok |-> FALSE, reason |-> "InvalidVotePlan"]
  ELSE IF cast.proposal_index \notin DOMAIN m.votes
    THEN [ok |-> FALSE, reason |-> "InvalidVoteProposal"]
  ELSE IF ~(m.plan.vote_start <= block_date /\ block_date <= m.plan.vote_end)
    THEN [ok |-> FALSE, reason |-> "NotVoteTime"]
  ELSE IF m.status # "Voting"
    THEN [ok |-> FALSE, reason |-> "VotingClosed"]
  ELSE IF cast.payload.type # m.plan.payload_type
    THEN [ok |-> FALSE, reason |-> "InvalidPayloadType"]
  ELSE IF m.plan.payload_type = "Private" /\ ~cast.payload.proof_ok
    THEN [ok |-> FALSE, reason |-> "VoteVerificationError"]
  ELSE LET votes == [m.votes[cast.proposal_index] EXCEPT
                        ![identifier] = cast.payload.choice]
       IN  [ok |-> TRUE,
            value |-> [m EXCEPT
                         !.votes[cast.proposal_index] = votes,
                         !.encrypted_tallies[cast.proposal_index] =
                           IF m.plan.payload_type = "Private"
                             THEN TallyEncrypted(m.plan, votes, Accounts)
                             ELSE <<>>]]

\* the threshold: the number of distinct members whose shares a private
\* tally needs
TallyThreshold == 2

\* VotePlanManager::start_private_tally
Manager_start_private_tally(m, block_date, committee_id) ==
  IF m.plan.payload_type # "Private"
    THEN [ok |-> FALSE, reason |-> "InvalidPayloadType"]
  ELSE IF ~(m.plan.vote_end <= block_date /\ block_date <= m.plan.committee_end)
    THEN [ok |-> FALSE, reason |-> "NotCommitteeTime"]
  ELSE IF committee_id \notin m.committee
    THEN [ok |-> FALSE, reason |-> "InvalidTallyCommittee"]
  ELSE IF m.status # "Voting"
    THEN [ok |-> FALSE, reason |-> "TallyAlreadyStarted"]
  ELSE [ok |-> TRUE, value |-> [m EXCEPT !.status = "TallyStarted"]]

\* VotePlanManager::public_tally
Manager_public_tally(m, block_date, committee_id) ==
  IF m.plan.payload_type # "Public"
    THEN [ok |-> FALSE, reason |-> "InvalidPayloadType"]
  ELSE IF ~(m.plan.vote_end <= block_date /\ block_date <= m.plan.committee_end)
    THEN [ok |-> FALSE, reason |-> "NotCommitteeTime"]
  ELSE IF committee_id \notin m.committee
    THEN [ok |-> FALSE, reason |-> "InvalidTallyCommittee"]
  ELSE IF m.status # "Voting"
    THEN [ok |-> FALSE, reason |-> "TallyAlreadyFinished"]
  ELSE [ok |-> TRUE,
        value |-> [m EXCEPT !.status = "Finished",
                            !.result = [i \in DOMAIN m.votes |->
                                          TallyPublic(m.votes[i])]],
        calls |-> HookCalls(m.plan)]

\* the members of a set in the order of their indices
RECURSIVE SortedMembers(_)
SortedMembers(members) ==
  IF members = {}
    THEN <<>>
    ELSE LET least == CHOOSE i \in members : \A j \in members : i <= j
         IN  <<least>> \o SortedMembers(members \ {least})

\* collected_shares: the members whose shares the manager holds; it holds
\* one TallyDecryptShare for each proposal under the id of the member
collected_shares(shares) == { shares[k] : k \in DOMAIN shares }

\* VotePlanManager::finalize_private_tally; shares is the sequence of the
\* members whose decryption shares the tally carries
Manager_finalize_private_tally(m, shares) ==
  IF m.status # "TallyStarted"
    THEN [ok |-> FALSE, reason |-> "TallyNotStarted"]
  ELSE IF Cardinality(collected_shares(shares)) < TallyThreshold
    THEN [ok |-> FALSE, reason |-> "NotEnoughShares"]
  ELSE LET members == SortedMembers(collected_shares(shares))
           decode(tally) ==
             result(TestMaxVotes, TestTableSize, EncryptedTally_state(tally),
                    [k \in 1..Len(members) |->
                       EncryptedTally_finish(
                         tally, MemberSecretKey(members[k])).share]).votes
       IN  [ok |-> TRUE,
            value |-> [m EXCEPT !.status = "Finished",
                                !.result = [i \in DOMAIN m.votes |->
                                              decode(m.encrypted_tallies[i])]],
            calls |-> HookCalls(m.plan)]

(***************************************************************************)
(* VotePlanLedger.  Each operation returns the receiver as it is after the *)
(* call (self) and the Result it returns (ret).                            *)
(***************************************************************************)
VotePlanLedger_new == Hamt_new

\* add_vote_plan inserting the plan into a new ledger, not into self
add_vote_plan_into_new(self, current_date, vote_plan, committee) ==
  IF current_date > vote_plan.vote_end
    THEN [self |-> self,
          ret |-> [kind |-> "VotePlanVoteEndPassed",
                   current_date |-> current_date,
                   vote_end |-> vote_plan.vote_end]]
  ELSE IF current_date > vote_plan.vote_start
    THEN [self |-> self,
          ret |-> [kind |-> "VotePlanVoteStartStartedAlready",
                   current_date |-> current_date,
                   vote_start |-> vote_plan.vote_start]]
  ELSE IF /\ vote_plan.payload_type = "Private"
          /\ vote_plan.committee_public_keys = <<>>
    THEN [self |-> self,
          ret |-> [kind |-> "VotePlanMissingCommitteeMemberKey"]]
  ELSE LET id == to_id(vote_plan)
           manager == VotePlanManager_new(vote_plan, committee)
           r == Hamt_insert(Hamt_new, id, manager)
       IN  [self |-> self, ret |-> [kind |-> "Ok", plans |-> r.map]]

\* add_vote_plan with the vote_start check made inclusive
add_vote_plan_start_inclusive(self, current_date, vote_plan, committee) ==
  IF current_date > vote_plan.vote_end
    THEN [self |-> self,
          ret |-> [kind |-> "VotePlanVoteEndPassed",
                   current_date |-> current_date,
                   vote_end |-> vote_plan.vote_end]]
  ELSE IF current_date >= vote_plan.vote_start
    THEN [self |-> self,
          ret |-> [kind |-> "VotePlanVoteStartStartedAlready",
                   current_date |-> current_date,
                   vote_start |-> vote_plan.vote_start]]
  ELSE IF /\ vote_plan.payload_type = "Private"
          /\ vote_plan.committee_public_keys = <<>>
    THEN [self |-> self,
          ret |-> [kind |-> "VotePlanMissingCommitteeMemberKey"]]
  ELSE LET id == to_id(vote_plan)
           manager == VotePlanManager_new(vote_plan, committee)
           r == Hamt_insert(self, id, manager)
       IN  IF r.ok
             THEN [self |-> self, ret |-> [kind |-> "Ok", plans |-> r.map]]
             ELSE [self |-> self,
                   ret |-> [kind |-> "VotePlanInsertionError",
                            id |-> id, reason |-> r.reason]]

\* add_vote_plan with the vote_start check made before the vote_end check
add_vote_plan_start_first(self, current_date, vote_plan, committee) ==
  IF current_date > vote_plan.vote_start
    THEN [self |-> self,
          ret |-> [kind |-> "VotePlanVoteStartStartedAlready",
                   current_date |-> current_date,
                   vote_start |-> vote_plan.vote_start]]
  ELSE IF current_date > vote_plan.vote_end
    THEN [self |-> self,
          ret |-> [kind |-> "VotePlanVoteEndPassed",
                   current_date |-> current_date,
                   vote_end |-> vote_plan.vote_end]]
  ELSE IF /\ vote_plan.payload_type = "Private"
          /\ vote_plan.committee_public_keys = <<>>
    THEN [self |-> self,
          ret |-> [kind |-> "VotePlanMissingCommitteeMemberKey"]]
  ELSE LET id == to_id(vote_plan)
           manager == VotePlanManager_new(vote_plan, committee)
           r == Hamt_insert(self, id, manager)
       IN  IF r.ok
             THEN [self |-> self, ret |-> [kind |-> "Ok", plans |-> r.map]]
             ELSE [self |-> self,
                   ret |-> [kind |-> "VotePlanInsertionError",
                            id |-> id, reason |-> r.reason]]

\* add_vote_plan without the committee key check
add_vote_plan_no_key_check(self, current_date, vote_plan, committee) ==
  IF current_date > vote_plan.vote_end
    THEN [self |-> self,
          ret |-> [kind |-> "VotePlanVoteEndPassed",
                   current_date |-> current_date,
                   vote_end |-> vote_plan.vote_end]]
  ELSE IF current_date > vote_plan.vote_start
    THEN [self |-> self,
          ret |-> [kind |-> "VotePlanVoteStartStartedAlready",
                   current_date |-> current_date,
                   vote_start |-> vote_plan.vote_start]]
  ELSE LET id == to_id(vote_plan)
           manager == VotePlanManager_new(vote_plan, committee)
           r == Hamt_insert(self, id, manager)
       IN  IF r.ok
             THEN [self |-> self, ret |-> [kind |-> "Ok", plans |-> r.map]]
             ELSE [self |-> self,
                   ret |-> [kind |-> "VotePlanInsertionError",
                            id |-> id, reason |-> r.reason]]

\* add_vote_plan storing the new manager over the one already stored
add_vote_plan_replacing(self, current_date, vote_plan, committee) ==
  IF current_date > vote_plan.vote_end
    THEN [self |-> self,
          ret |-> [kind |-> "VotePlanVoteEndPassed",
                   current_date |-> current_date,
                   vote_end |-> vote_plan.vote_end]]
  ELSE IF current_date > vote_plan.vote_start
    THEN [self |-> self,
          ret |-> [kind |-> "VotePlanVoteStartStartedAlready",
                   current_date |-> current_date,
                   vote_start |-> vote_plan.vote_start]]
  ELSE IF /\ vote_plan.payload_type = "Private"
          /\ vote_plan.committee_public_keys = <<>>
    THEN [self |-> self,
          ret |-> [kind |-> "VotePlanMissingCommitteeMemberKey"]]
  ELSE LET id == to_id(vote_plan)
           manager == VotePlanManager_new(vote_plan, committee)
       IN  [self |-> self,
            ret |-> [kind |-> "Ok",
                     plans |-> [x \in DOMAIN self \cup {id} |->
                                  IF x = id THEN manager ELSE self[x]]]]

\* add_vote_plan making the manager with an empty committee
add_vote_plan_no_committee(self, current_date, vote_plan, committee) ==
  IF current_date > vote_plan.vote_end
    THEN [self |-> self,
          ret |-> [kind |-> "VotePlanVoteEndPassed",
                   current_date |-> current_date,
                   vote_end |-> vote_plan.vote_end]]
  ELSE IF current_date > vote_plan.vote_start
    THEN [self |-> self,
          ret |-> [kind |-> "VotePlanVoteStartStartedAlready",
                   current_date |-> current_date,
                   vote_start |-> vote_plan.vote_start]]
  ELSE IF /\ vote_plan.payload_type = "Private"
          /\ vote_plan.committee_public_keys = <<>>
    THEN [self |-> self,
          ret |-> [kind |-> "VotePlanMissingCommitteeMemberKey"]]
  ELSE LET id == to_id(vote_plan)
           manager == VotePlanManager_new(vote_plan, {})
           r == Hamt_insert(self, id, manager)
       IN  IF r.ok
             THEN [self |-> self, ret |-> [kind |-> "Ok", plans |-> r.map]]
             ELSE [self |-> self,
                   ret |-> [kind |-> "VotePlanInsertionError",
                            id |-> id, reason |-> r.reason]]

\* add_vote_plan reporting vote_start as the vote_end of VotePlanVoteEndPassed
add_vote_plan_wrong_date(self, current_date, vote_plan, committee) ==
  IF current_date > vote_plan.vote_end
    THEN [self |-> self,
          ret |-> [kind |-> "VotePlanVoteEndPassed",
                   current_date |-> current_date,
                   vote_end |-> vote_plan.vote_start]]
  ELSE IF current_date > vote_plan.vote_start
    THEN [self |-> self,
          ret |-> [kind |-> "VotePlanVoteStartStartedAlready",
                   current_date |-> current_date,
                   vote_start |-> vote_plan.vote_start]]
  ELSE IF /\ vote_plan.payload_type = "Private"
          /\ vote_plan.committee_public_keys = <<>>
    THEN [self |-> self,
          ret |-> [kind |-> "VotePlanMissingCommitteeMemberKey"]]
  ELSE LET id == to_id(vote_plan)
           manager == VotePlanManager_new(vote_plan, committee)
           r == Hamt_insert(self, id, manager)
       IN  IF r.ok
             THEN [self |-> self, ret |-> [kind |-> "Ok", plans |-> r.map]]
             ELSE [self |-> self,
                   ret |-> [kind |-> "VotePlanInsertionError",
                            id |-> id, reason |-> r.reason]]

add_vote_plan(self, current_date, vote_plan, committee) ==
  IF current_date > vote_plan.vote_end
    THEN [self |-> self,
          ret |-> [kind |-> "VotePlanVoteEndPassed",
                   current_date |-> current_date,
                   vote_end |-> vote_plan.vote_end]]
  ELSE IF current_date > vote_plan.vote_start
    THEN [self |-> self,
          ret |-> [kind |-> "VotePlanVoteStartStartedAlready",
                   current_date |-> current_date,
                   vote_start |-> vote_plan.vote_start]]
  ELSE IF /\ vote_plan.payload_type = "Private"
          /\ vote_plan.committee_public_keys = <<>>
    THEN [self |-> self,
          ret |-> [kind |-> "VotePlanMissingCommitteeMemberKey"]]
  ELSE LET id == to_id(vote_plan)
           manager == VotePlanManager_new(vote_plan, committee)
           r == Hamt_insert(self, id, manager)
       IN  IF r.ok
             THEN [self |-> self, ret |-> [kind |-> "Ok", plans |-> r.map]]
             ELSE [self |-> self,
                   ret |-> [kind |-> "VotePlanInsertionError",
                            id |-> id, reason |-> r.reason]]

\* apply_vote updating the map of the receiver in place
apply_vote_in_place(self, block_date, identifier, vote) ==
  LET id == vote.vote_plan
      F == [v \in Hamt_lookup(self, id) |-> Manager_vote(v, block_date, identifier, vote)]
      r == Hamt_update(self, id, F)
  IN  IF r.ok
        THEN [self |-> r.map, ret |-> [kind |-> "Ok", plans |-> r.map]]
        ELSE [self |-> self,
              ret |-> [kind |-> "VoteError", id |-> id, reason |-> r.reason]]

\* apply_vote taking a vote for a plan that is not stored as a no-op
apply_vote_ignoring_missing(self, block_date, identifier, vote) ==
  LET id == vote.vote_plan
      F == [v \in Hamt_lookup(self, id) |-> Manager_vote(v, block_date, identifier, vote)]
      r == Hamt_update(self, id, F)
  IN  IF r.ok
        THEN [self |-> self, ret |-> [kind |-> "Ok", plans |-> r.map]]
      ELSE IF r.reason = "KeyNotFound"
        THEN [self |-> self, ret |-> [kind |-> "Ok", plans |-> self]]
        ELSE [self |-> self,
              ret |-> [kind |-> "VoteError", id |-> id, reason |-> r.reason]]

\* apply_vote returning the ledger as it is when the manager rejects the vote
apply_vote_swallowing(self, block_date, identifier, vote) ==
  LET id == vote.vote_plan
      F == [v \in Hamt_lookup(self, id) |-> Manager_vote(v, block_date, identifier, vote)]
      r == Hamt_update(self, id, F)
  IN  IF r.ok
        THEN [self |-> self, ret |-> [kind |-> "Ok", plans |-> r.map]]
      ELSE IF r.reason = "KeyNotFound"
        THEN [self |-> self,
              ret |-> [kind |-> "VoteError", id |-> id, reason |-> r.reason]]
        ELSE [self |-> self, ret |-> [kind |-> "Ok", plans |-> self]]

\* apply_vote recording the vote of a manager that has closed the vote
apply_vote_after_close(self, block_date, identifier, vote) ==
  LET id == vote.vote_plan
      F == [v \in Hamt_lookup(self, id) |-> Manager_vote(v, block_date, identifier, vote)]
      r == Hamt_update(self, id, F)
  IN  IF r.ok
        THEN [self |-> self, ret |-> [kind |-> "Ok", plans |-> r.map]]
      ELSE IF r.reason = "VotingClosed"
        THEN [self |-> self,
              ret |-> [kind |-> "Ok",
                       plans |-> [self EXCEPT
                                    ![id].votes[vote.proposal_index][identifier] =
                                      vote.payload.choice]]]
        ELSE [self |-> self,
              ret |-> [kind |-> "VoteError", id |-> id, reason |-> r.reason]]

\* apply_vote keeping the first vote of an account for a proposal
apply_vote_keep_first(self, block_date, identifier, vote) ==
  LET id == vote.vote_plan
      F == [v \in Hamt_lookup(self, id) |-> Manager_vote(v, block_date, identifier, vote)]
      r == Hamt_update(self, id, F)
  IN  IF r.ok
        THEN IF self[id].votes[vote.proposal_index][identifier] # NoChoice
               THEN [self |-> self, ret |-> [kind |-> "Ok", plans |-> self]]
               ELSE [self |-> self, ret |-> [kind |-> "Ok", plans |-> r.map]]
        ELSE [self |-> self,
              ret |-> [kind |-> "VoteError", id |-> id, reason |-> r.reason]]

apply_vote(self, block_date, identifier, vote) ==
  LET id == vote.vote_plan
      F == [v \in Hamt_lookup(self, id) |-> Manager_vote(v, block_date, identifier, vote)]
      r == Hamt_update(self, id, F)
  IN  IF r.ok
        THEN [self |-> self, ret |-> [kind |-> "Ok", plans |-> r.map]]
        ELSE [self |-> self,
              ret |-> [kind |-> "VoteError", id |-> id, reason |-> r.reason]]

\* VoteTally::tally_decrypted: Some(the decrypted shares) of a private tally,
\* None for a public one
tally_decrypted(tally) ==
  [some |-> tally.tally_type = "Private", value |-> tally.shares]

\* apply_committee_result finishing a tally that was not started
apply_committee_result_unstarted(self, block_date, tally, sig) ==
  LET id == tally.id
      committee_id == sig.id
  IN  IF id \notin DOMAIN self
        THEN [self |-> self,
              ret |-> [kind |-> "VoteError", id |-> id, reason |-> "KeyNotFound"],
              calls |-> <<>>]
      ELSE IF sig.type = "Private" /\ ~tally_decrypted(tally).some
        THEN [self |-> self, ret |-> [kind |-> "Panic"], calls |-> <<>>]
      ELSE LET F == [v \in Hamt_lookup(self, id) |->
                      IF sig.type = "Public"
                        THEN Manager_public_tally(v, block_date, committee_id)
                        ELSE Manager_finalize_private_tally(
                               v, tally_decrypted(tally).value)]
               r == Hamt_update(self, id, F)
           IN  IF r.ok
                 THEN [self |-> self, ret |-> [kind |-> "Ok", plans |-> r.map],
                       calls |-> [k \in DOMAIN F[self[id]].calls |->
                                    [id |-> id,
                                     proposal |-> F[self[id]].calls[k]]]]
               ELSE IF r.reason = "TallyNotStarted"
                 THEN [self |-> self,
                       ret |-> [kind |-> "Ok",
                                plans |-> [self EXCEPT ![id].status = "Finished"]],
                       calls |-> <<>>]
                 ELSE [self |-> self,
                       ret |-> [kind |-> "VoteError", id |-> id, reason |-> r.reason],
                       calls |-> <<>>]

\* apply_committee_result finishing a private tally that is short of shares
apply_committee_result_short_of_shares(self, block_date, tally, sig) ==
  LET id == tally.id
      committee_id == sig.id
  IN  IF id \notin DOMAIN self
        THEN [self |-> self,
              ret |-> [kind |-> "VoteError", id |-> id, reason |-> "KeyNotFound"],
              calls |-> <<>>]
      ELSE IF sig.type = "Private" /\ ~tally_decrypted(tally).some
        THEN \* Option::unwrap on None, inside the update closure
             [self |-> self, ret |-> [kind |-> "Panic"], calls |-> <<>>]
      ELSE LET F == [v \in Hamt_lookup(self, id) |->
                      IF sig.type = "Public"
                        THEN Manager_public_tally(v, block_date, committee_id)
                        ELSE Manager_finalize_private_tally(
                               v, tally_decrypted(tally).value)]
               r == Hamt_update(self, id, F)
           IN  IF r.ok
                 THEN [self |-> self, ret |-> [kind |-> "Ok", plans |-> r.map],
                       calls |-> [k \in DOMAIN F[self[id]].calls |->
                                    [id |-> id,
                                     proposal |-> F[self[id]].calls[k]]]]
               ELSE IF r.reason = "NotEnoughShares"
                 THEN [self |-> self,
                       ret |-> [kind |-> "Ok",
                                plans |-> [self EXCEPT ![id].status = "Finished"]],
                       calls |-> [k \in 1..self[id].plan.proposals |->
                                    [id |-> id, proposal |-> k - 1]]]
                 ELSE [self |-> self,
                       ret |-> [kind |-> "VoteError", id |-> id, reason |-> r.reason],
                       calls |-> <<>>]

\* apply_committee_result whose closure calls f a second time
apply_committee_result_hook_twice(self, block_date, tally, sig) ==
  LET id == tally.id
      committee_id == sig.id
  IN  IF id \notin DOMAIN self
        THEN [self |-> self,
              ret |-> [kind |-> "VoteError", id |-> id, reason |-> "KeyNotFound"],
              calls |-> <<>>]
      ELSE IF sig.type = "Private" /\ ~tally_decrypted(tally).some
        THEN \* Option::unwrap on None, inside the update closure
             [self |-> self, ret |-> [kind |-> "Panic"], calls |-> <<>>]
      ELSE LET F == [v \in Hamt_lookup(self, id) |->
                      IF sig.type = "Public"
                        THEN Manager_public_tally(v, block_date, committee_id)
                        ELSE Manager_finalize_private_tally(
                               v, tally_decrypted(tally).value)]
               r == Hamt_update(self, id, F)
           IN  IF r.ok
                 THEN [self |-> self, ret |-> [kind |-> "Ok", plans |-> r.map],
                       calls |-> [k \in DOMAIN F[self[id]].calls |->
                                    [id |-> id,
                                     proposal |-> F[self[id]].calls[k]]]
                                 \o [k \in DOMAIN F[self[id]].calls |->
                                      [id |-> id,
                                       proposal |-> F[self[id]].calls[k]]]]
                 ELSE [self |-> self,
                       ret |-> [kind |-> "VoteError", id |-> id, reason |-> r.reason],
                       calls |-> <<>>]

\* sig is the TallyProof: its variant (type) and the committee id it carries
apply_committee_result(self, block_date, tally, sig) ==
  LET id == tally.id
      committee_id == sig.id
  IN  IF id \notin DOMAIN self
        THEN [self |-> self,
              ret |-> [kind |-> "VoteError", id |-> id, reason |-> "KeyNotFound"],
              calls |-> <<>>]
      ELSE IF sig.type = "Private" /\ ~tally_decrypted(tally).some
        THEN \* Option::unwrap on None, inside the update closure
             [self |-> self, ret |-> [kind |-> "Panic"], calls |-> <<>>]
      ELSE LET F == [v \in Hamt_lookup(self, id) |->
                      IF sig.type = "Public"
                        THEN Manager_public_tally(v, block_date, committee_id)
                        ELSE Manager_finalize_private_tally(
                               v, tally_decrypted(tally).value)]
               r == Hamt_update(self, id, F)
           IN  IF r.ok
                 THEN [self |-> self, ret |-> [kind |-> "Ok", plans |-> r.map],
                       calls |-> [k \in DOMAIN F[self[id]].calls |->
                                    [id |-> id,
                                     proposal |-> F[self[id]].calls[k]]]]
                 ELSE [self |-> self,
                       ret |-> [kind |-> "VoteError", id |-> id, reason |-> r.reason],
                       calls |-> <<>>]

\* apply_encrypted_vote_tally starting the tally again when it was started
apply_encrypted_vote_tally_restarting(self, block_date, encrypted_tally, committee_id) ==
  LET id == encrypted_tally.id
      F == [v \in Hamt_lookup(self, id) |->
             Manager_start_private_tally(v, block_date, committee_id)]
      r == Hamt_update(self, id, F)
  IN  IF r.ok
        THEN [self |-> self, ret |-> [kind |-> "Ok", plans |-> r.map]]
      ELSE IF r.reason = "TallyAlreadyStarted"
        THEN [self |-> self,
              ret |-> [kind |-> "Ok",
                       plans |-> [self EXCEPT ![id].status = "TallyStarted"]]]
        ELSE [self |-> self,
              ret |-> [kind |-> "VoteError", id |-> id, reason |-> r.reason]]

\* apply_encrypted_vote_tally giving the manager a member of its committee in
\* place of the committee id of the certificate
apply_encrypted_vote_tally_any_signer(self, block_date, encrypted_tally, committee_id) ==
  LET id == encrypted_tally.id
      F == [v \in Hamt_lookup(self, id) |->
             Manager_start_private_tally(v, block_date,
                                         CHOOSE c \in v.committee : TRUE)]
      r == Hamt_update(self, id, F)
  IN  IF r.ok
        THEN [self |-> self, ret |-> [kind |-> "Ok", plans |-> r.map]]
        ELSE [self |-> self,
              ret |-> [kind |-> "VoteError", id |-> id, reason |-> r.reason]]

apply_encrypted_vote_tally(self, block_date, encrypted_tally, committee_id) ==
  LET id == encrypted_tally.id
      F == [v \in Hamt_lookup(self, id) |->
             Manager_start_private_tally(v, block_date, committee_id)]
      r == Hamt_update(self, id, F)
  IN  IF r.ok
        THEN [self |-> self, ret |-> [kind |-> "Ok", plans |-> r.map]]
        ELSE [self |-> self,
              ret |-> [kind |-> "VoteError", id |-> id, reason |-> r.reason]]

(***************************************************************************)
(* The driver: it applies the fragments of one block after the other to    *)
(* the current head, at the date of the block, and replaces the head by    *)
(* the ledger an accepted fragment returns.                                *)
(***************************************************************************)
\* no election is run beside the ledger
NoElection == [committee |-> {}, threshold |-> 0,
               tally |-> <<>>, counted |-> <<>>, casts |-> 0,
               shares |-> <<>>, tr |-> <<>>]

\* no call of result() beside the ledger
NoDecoding == [max_votes |-> 0, table_size |-> 0, tally_state |-> <<>>,
               decrypt_shares |-> <<>>, tr |-> <<>>]

\* no bytes written or read beside the ledger
NoWire == [type |-> "none", bytes |-> <<>>, writer |-> "none",
           reader |-> "none", read |-> <<>>]

\* no trie and no pool registration beside the ledger
NoStorage == <<>>

NoPools == [registered |-> {}, ret |-> [kind |-> "Ok"], before |-> {},
            fragments |-> 0, pool |-> <<>>, signers |-> {}]

NoPlanId == <<>>

Init ==
  /\ head = VotePlanLedger_new
  /\ receiver = VotePlanLedger_new
  /\ last = [op |-> "new", id |-> NoPlanId, ret |-> [kind |-> "Ok"]]
  /\ now = 0
  /\ governance = <<>>
  /\ election = NoElection
  /\ decoding = NoDecoding
  /\ wire = NoWire
  /\ storage = NoStorage
  /\ pools = NoPools

\* what the driver keeps of a Result: the error as returned, or Ok
Outcome(ret) == IF ret.kind = "Ok" THEN [kind |-> "Ok"] ELSE ret

\* the calls of the governance hook f that an operation made
Invoked(r) == IF "calls" \in DOMAIN r THEN r.calls ELSE <<>>

\* the governance state: how often f was called for each proposal of a plan
Governed(g, calls) ==
  IF calls = <<>>
    THEN g
    ELSE LET called == { calls[k] : k \in DOMAIN calls }
         IN  [c \in DOMAIN g \cup called |->
                (IF c \in DOMAIN g THEN g[c] ELSE 0)
                  + Cardinality({ k \in DOMAIN calls : calls[k] = c })]

Step(op, id, r) ==
  /\ head' = IF r.ret.kind = "Ok" THEN r.ret.plans ELSE head
  /\ receiver' = r.self
  /\ last' = [op |-> op, id |-> id, ret |-> Outcome(r.ret)]
  /\ governance' = Governed(governance, Invoked(r))
  /\ UNCHANGED <<now, election, decoding, wire, storage, pools>>

AddVotePlan ==
  \E p \in OfferedPlans, c \in Committees :
    LET r == add_vote_plan(head, now, p, c)
    IN  /\ r.ret.kind = "Ok" => Cardinality(DOMAIN head) < MaxPlans
        /\ Step("add_vote_plan", to_id(p), r)

OfferedIds == { to_id(p) : p \in OfferedPlans }

\* a plan id that is not in the ledger
UnknownId == CHOOSE id \in OfferedIds : id \notin DOMAIN head

\* the plan ids a certificate can name: the stored ones and one that is not stored
CertIds == DOMAIN head \cup {UnknownId}

ApplyVote ==
  \E a \in Accounts, id \in CertIds, i \in 0..1, pl \in Payloads :
    LET cast == [vote_plan |-> id, proposal_index |-> i, payload |-> pl]
        r == apply_vote(head, now, a, cast)
    IN  \* one vote cast is enough for a plan id that is not stored
        /\ id = UnknownId => (i = 0 /\ pl.type = "Public" /\ pl.choice = 0)
        /\ Step("apply_vote", id, r)

ApplyEncryptedVoteTally ==
  \E id \in CertIds, cid \in CommitteeIds :
    LET r == apply_encrypted_vote_tally(head, now, [id |-> id], cid)
    IN  Step("apply_encrypted_vote_tally", id, r)

\* the members whose shares a private VoteTally can carry, one after the
\* other: no share, the share of member 1 twice, the shares of both members,
\* and these with the share of member 1 once more
ShareLists == {<<>>, <<1, 1>>, <<1, 2>>, <<1, 2, 1>>}

VoteTallies(id) ==
  [id : {id}, tally_type : {"Public"}, shares : {<<>>}]
    \cup [id : {id}, tally_type : {"Private"}, shares : ShareLists]

TallyProofs == [type : PayloadTypes, id : CommitteeIds]

\* the proofs tally_sign makes have the type of the tally; the ledger also
\* takes a proof of the other type
ApplyCommitteeResult ==
  \E id \in CertIds, sig \in TallyProofs :
    \E tally \in VoteTallies(id) :
      LET r == apply_committee_result(head, now, tally, sig)
      IN  \* one public and one private proof are enough for a plan id that
          \* is not stored
          /\ id = UnknownId => (sig.id = "c1" /\ tally.tally_type = sig.type
                                  /\ tally.shares = <<>>)
          /\ sig.type = "Private" => sig.id = "c1"
          /\ (sig.type = "Public" /\ tally.tally_type = "Private") =>
                tally.shares = <<>>
          /\ Step("apply_committee_result", id, r)

\* the next block: block dates never go back
NewBlock ==
  /\ now < MaxDate
  /\ now' = now + 1
  /\ last' = [op |-> "new_block", id |-> NoPlanId, ret |-> [kind |-> "Ok"]]
  /\ UNCHANGED <<head, receiver, governance, election, decoding, wire,
                 storage, pools>>

Next ==
  \/ NewBlock
  \/ AddVotePlan
  \/ ApplyVote
  \/ ApplyEncryptedVoteTally
  \/ ApplyCommitteeResult

Spec == Init /\ [][Next]_vars

(***************************************************************************)
(* An election run on the tally of chain-vote alone, as the tests encdec1  *)
(* and encdec3 run it: a committee and its election key, votes added to an *)
(* EncryptedTally, the shares the members produce with finish, and the     *)
(* TallyResult that result() decodes from the shares handed to it.         *)
(***************************************************************************)
MaxCasts == 3
MaxShares == 3

\* the weights of the votes of the tests
Weights == {1, 3, 4}

ElectionCommittees == (SUBSET Members) \ {{}}

\* the election key of a committee: every member is a participant
EncryptingVoteKey(committee) ==
  LET members == SortedMembers(committee)
  IN  ElectionPublicKey_from_participants(
        [k \in 1..Len(members) |-> MemberPublicKey(members[k])])

ElectionInit ==
  /\ head = VotePlanLedger_new
  /\ receiver = VotePlanLedger_new
  /\ last = [op |-> "new", id |-> NoPlanId, ret |-> [kind |-> "Ok"]]
  /\ now = 0
  /\ governance = <<>>
  /\ decoding = NoDecoding
  /\ wire = NoWire
  /\ storage = NoStorage
  /\ pools = NoPools
  /\ \E committee \in ElectionCommittees :
       \E threshold \in 1..Cardinality(committee) :
         election = [committee |-> committee, threshold |-> threshold,
                     tally |-> EncryptedTally_new(NumOptions),
                     counted |-> [o \in 1..NumOptions |-> 0],
                     casts |-> 0, shares |-> <<>>, tr |-> None]

\* encrypt_vote and tally.add(&vote, weight); counted is the count the
\* result is to be compared with
ElectionAdd ==
  \E choice \in Choices, weight \in Weights :
    /\ election.casts < MaxCasts
    /\ election.shares = <<>>
    /\ election.tr = None
    /\ election' =
         [election EXCEPT
            !.tally = EncryptedTally_add(
                        @, EncryptingVote_prepare(
                             EncryptingVoteKey(election.committee),
                             UnitVector(NumOptions, choice), Coins),
                        weight),
            !.counted[choice + 1] = @ + weight,
            !.casts = @ + 1]
    /\ UNCHANGED <<head, receiver, last, now, governance, decoding, wire,
                   storage, pools>>

\* tally.finish(member.secret_key()): the share is kept under the index of
\* the member that made it; a member may hand in its share again
ElectionFinish ==
  \E member \in election.committee :
    /\ Len(election.shares) < MaxShares
    /\ election.tr = None
    /\ election' = [election EXCEPT !.shares = Append(@, member)]
    /\ UNCHANGED <<head, receiver, last, now, governance, decoding, wire,
                   storage, pools>>

\* result(max_votes, table_size, &ts, &shares) on the shares handed in
ElectionResult ==
  /\ election.tr = None
  /\ election' =
       [election EXCEPT
          !.tr = Some(result(
                   TestMaxVotes, TestTableSize,
                   EncryptedTally_state(election.tally),
                   [k \in 1..Len(election.shares) |->
                      EncryptedTally_finish(
                        election.tally,
                        MemberSecretKey(election.shares[k])).share]))]
  /\ UNCHANGED <<head, receiver, last, now, governance, decoding, wire,
                 storage, pools>>

ElectionNext ==
  \/ ElectionAdd
  \/ ElectionFinish
  \/ ElectionResult

ElectionSpec == ElectionInit /\ [][ElectionNext]_vars

\* the members whose share was handed to result()
Sharers == { election.shares[k] : k \in DOMAIN election.shares }

\* no member handed in its share twice
DistinctShares ==
  \A j \in DOMAIN election.shares, k \in DOMAIN election.shares :
    election.shares[j] = election.shares[k] => j = k

\* the votes of the TallyResult are the count of the votes added
TrueTally ==
  election.tr[1].votes = [o \in 1..NumOptions |-> Some(election.counted[o])]

\* C15: result() given the shares of threshold or more distinct members of
\* the committee, whose election key is made of the keys of all members,
\* returns the count of every option -- for every threshold up to the size
\* of the committee.
C15_AnyThresholdShares ==
  (/\ election.tr # None
   /\ DistinctShares
   /\ Cardinality(Sharers) >= election.threshold) => TrueTally

\* C19: a second share of a member is not summed into the decryption: when
\* every member of the committee handed in its share, result() returns the
\* count of every option, whether or not a member handed in its share again.
C19_RepeatedShareNotSummed ==
  (/\ election.tr # None
   /\ Sharers = election.committee) => TrueTally

\* C37: finish(sk) returns, for every slot j, the share element c1_j * sk
\* and the state element c2_j, in the order of the slots and with as many
\* elements as the tally has slots; it leaves the tally as it is, so every
\* member of the committee gets the same TallyState, the one state() gives.
C37_FinishFrame ==
  /\ [](\A member \in election.committee :
          LET finished == EncryptedTally_finish(election.tally,
                                                MemberSecretKey(member))
          IN  /\ Len(finished.state) = Len(election.tally)
              /\ Len(finished.share) = Len(election.tally)
              /\ \A j \in 1..Len(election.tally) :
                   /\ finished.share[j] =
                        GroupElement_mul(election.tally[j].e1,
                                         MemberSecretKey(member))
                   /\ finished.state[j] = election.tally[j].e2
              /\ finished.state = EncryptedTally_state(election.tally))
  /\ [][Len(election'.shares) > Len(election.shares) =>
          election'.tally = election.tally]_vars

\* two members finished a tally that holds votes
C37_Witness ==
  /\ election.casts >= 2
  /\ Cardinality(Sharers) >= 2
  /\ EncryptedTally_state(election.tally) # EncryptedTally_state(
                                              EncryptedTally_new(NumOptions))

(***************************************************************************)
(* The life of one EncryptedTally, as in the test encdec1: new, the votes  *)
(* added to it, finish with the key of the one member of the committee,    *)
(* and result.  The variable election holds it.                            *)
(***************************************************************************)
\* the numbers of options of a tally
TallyOptions == {2, 3}

\* the weights of the votes: none, within the table, and above it
TallyWeights == {0, 1, 4, 6}

\* max_votes of result: the weight of the first vote of encdec1 and the
\* max_votes of the test
MaxVotesOffered == {6, TestMaxVotes}

\* the random scalars an rng gives for the slots of a vote
RngsOffered == { [j \in 1..4 |-> j], [j \in 1..4 |-> 2 * j + 1] }

\* the member of the committee
TallyMember == 1

TallyKey == EncryptingVoteKey({TallyMember})

\* the votes that encrypt_vote makes for a tally: of its length, and shorter
\* or longer by one
VotesOffered(options) ==
  { encrypt_vote(SubSeq(rng, 1, len), TallyKey, UnitVector(len, choice)) :
      <<len, choice, rng>> \in
        { x \in ((options - 1)..(options + 1)) \X (0..options) \X RngsOffered :
            x[2] < x[1] } }

\* the votes offered to a tally, and those of its length, for each number
\* of options
VotesOfferedFor == [options \in TallyOptions |-> VotesOffered(options)]

VotesFittingFor ==
  [options \in TallyOptions |->
     { v \in VotesOffered(options) : Len(v.ciphertexts) = options }]

\* the option a vote is for
ChoiceOf(vote) ==
  CHOOSE i \in 0..(Len(vote.proof.unit_vector) - 1) :
    vote.proof.unit_vector[i + 1] = 1

TallyInit ==
  /\ head = VotePlanLedger_new
  /\ receiver = VotePlanLedger_new
  /\ last = [op |-> "new", id |-> NoPlanId, ret |-> [kind |-> "Ok"]]
  /\ now = 0
  /\ governance = <<>>
  /\ decoding = NoDecoding
  /\ wire = NoWire
  /\ storage = NoStorage
  /\ pools = NoPools
  /\ \E options \in TallyOptions, max_votes \in MaxVotesOffered :
       election = [options |-> options, max_votes |-> max_votes,
                   table_size |-> TestTableSize,
                   tally |-> EncryptedTally_new(options),
                   counted |-> [o \in 1..options |-> 0],
                   casts |-> 0, verified |-> <<>>, panic |-> FALSE,
                   tr |-> None]

\* encrypt_vote, verify_vote and tally.add(&vote, weight); counted is the
\* count the result is to be compared with.  A vote of another length than
\* the tally ends the run with the panic of add.
TallyAdd ==
  \E vote \in VotesOfferedFor[election.options], weight \in TallyWeights :
    LET call == EncryptedTally_add_call(election.tally, vote.ciphertexts, weight)
        verified == verify_vote(TallyKey, vote.ciphertexts, vote.proof)
    IN  /\ election.casts < MaxCasts
        /\ ~election.panic
        /\ election.tr = None
        /\ election' =
             IF call.panic
               THEN [election EXCEPT !.tally = call.r, !.panic = TRUE,
                                     !.verified = Append(@, verified)]
               ELSE [election EXCEPT
                       !.tally = call.r,
                       !.counted[ChoiceOf(vote) + 1] = @ + weight,
                       !.casts = @ + 1,
                       !.verified = Append(@, verified)]
        /\ UNCHANGED <<head, receiver, last, now, governance, decoding, wire,
                       storage, pools>>

\* tally.finish(m1.secret_key()) and result(max_votes, table_size, &ts,
\* &[tds1])
TallyResult ==
  LET finished == EncryptedTally_finish(election.tally,
                                        MemberSecretKey(TallyMember))
  IN  /\ ~election.panic
      /\ election.tr = None
      /\ election' =
           [election EXCEPT
              !.tr = Some(result(election.max_votes, election.table_size,
                                 finished.state, <<finished.share>>))]
      /\ UNCHANGED <<head, receiver, last, now, governance, decoding, wire,
                     storage, pools>>

TallyNext ==
  \/ TallyAdd
  \/ TallyResult

TallySpec == TallyInit /\ [][TallyNext]_vars

\* the votes counted, over all options
RECURSIVE SumOf(_)
SumOf(counts) ==
  IF counts = <<>> THEN 0 ELSE Head(counts) + SumOf(Tail(counts))

\* C21: one vote added with a weight that is at most max_votes (the weight
\* max_votes and a weight above table_size included), finish with the key
\* of the one member and result give Some(weight) for the option of the vote
\* and Some(0) for every other option.
C21_SingleVoterRoundTrip ==
  (/\ election.tr # None
   /\ election.casts = 1
   /\ SumOf(election.counted) <= election.max_votes) =>
     election.tr[1].votes =
       [o \in 1..election.options |-> Some(election.counted[o])]

\* the votes result() gives for a tally finished by the member
DecodedVotes(tally) ==
  LET finished == EncryptedTally_finish(tally, MemberSecretKey(TallyMember))
  IN  result(election.max_votes, election.table_size,
             finished.state, <<finished.share>>).votes

\* C24: the order in which votes are added is irrelevant: adding two votes
\* with their weights to a tally that can take two more votes, one way round
\* or the other, gives the same encrypted tally and the same votes of the
\* TallyResult.  (Any order of the votes of a tally is a sequence of such
\* exchanges, each followed by the same adds.)
C24_OrderIrrelevant ==
  (/\ election.casts + 2 <= MaxCasts
   /\ ~election.panic
   /\ election.tr = None) =>
  \A v1 \in VotesFittingFor[election.options],
     v2 \in VotesFittingFor[election.options] :
    \A w1 \in TallyWeights, w2 \in TallyWeights :
      LET t1 == EncryptedTally_add_call(election.tally, v1.ciphertexts, w1).r
          t12 == EncryptedTally_add_call(t1, v2.ciphertexts, w2).r
          t2 == EncryptedTally_add_call(election.tally, v2.ciphertexts, w2).r
          t21 == EncryptedTally_add_call(t2, v1.ciphertexts, w1).r
      IN  /\ t12 = t21
          /\ DecodedVotes(t12) = DecodedVotes(t21)

\* votes for two options were added, with weights 4 and 1, and the tally
\* was decoded
C24_Witness ==
  /\ election.casts = 2
  /\ election.counted[1] = 4
  /\ election.counted[2] = 1
  /\ election.tr # None
  /\ election.tr[1].votes[1] = Some(4)
  /\ election.tr[1].votes[2] = Some(1)

\* C25: new(n) is n zero ciphertexts; the tally has the n slots it was made
\* with after every sequence of adds; add of a vote of n ciphertexts puts
\* tally[j] + vote[j] * weight in every slot j; add of a vote of another
\* length panics and leaves every slot as it was.
C25_SlotsKept ==
  /\ \A n \in 0..3 :
       EncryptedTally_new(n) = [j \in 1..n |-> Ciphertext_zero]
  /\ Len(election.tally) = election.options
  /\ \A vote \in VotesOfferedFor[election.options], weight \in TallyWeights :
       LET call == EncryptedTally_add_call(election.tally, vote.ciphertexts,
                                           weight)
       IN  IF Len(vote.ciphertexts) = election.options
             THEN /\ ~call.panic
                  /\ Len(call.r) = election.options
                  /\ \A j \in 1..election.options :
                       call.r[j] =
                         Ciphertext_add(
                           election.tally[j],
                           Ciphertext_mul(vote.ciphertexts[j],
                                          Scalar_from_u64(weight)))
             ELSE /\ call.panic
                  /\ call.r = election.tally

\* a vote was added, and the add of a vote of another length then ended the
\* run; the tally has its slots, with the vote that was added
C25_Witness ==
  /\ election.panic
  /\ election.casts = 1
  /\ Len(election.verified) = 2
  /\ Len(election.tally) = election.options
  /\ election.tally # EncryptedTally_new(election.options)

\* C30: for every election key, number of options n and choice i < n, the
\* vote and the proof that encrypt_vote returns are accepted by verify_vote
\* under the same key; every vote that was added had been verified.
C30_ProofComplete ==
  /\ \A committee \in ElectionCommittees, n \in TallyOptions :
       \A i \in 0..(n - 1), rng \in RngsOffered :
         LET ek == EncryptingVoteKey(committee)
             ev == encrypt_vote(SubSeq(rng, 1, n), ek, UnitVector(n, i))
         IN  verify_vote(ek, ev.ciphertexts, ev.proof)
  /\ \A k \in DOMAIN election.verified : election.verified[k]

\* two votes were made by encrypt_vote, verified and added
C30_Witness ==
  /\ election.casts = 2
  /\ election.verified = <<TRUE, TRUE>>
  /\ election.counted[1] > 0
  /\ election.counted[2] > 0

(***************************************************************************)
(* result() on any tally state: the slots are group elements of any value, *)
(* as a tally of any votes or a share of any member leaves them.  The      *)
(* variable decoding holds the arguments of the call and the TallyResult.  *)
(***************************************************************************)
DecodeMaxVotes == 7
DecodeMaxTable == 3
DecodeMaxSlot == 7

\* the numbers of slots of the tally state
DecodeOptions == {1, 2}

\* the tally states: r2 of every slot, and the tally states of 255 and of
\* 256 slots that hold no vote
TallyStates ==
  UNION { [1..n -> 0..DecodeMaxSlot] : n \in DecodeOptions }
    \cup { [j \in 1..n |-> GroupElement_zero] : n \in {255, 256} }

\* the shares handed to result: none, or one whose every element is g
SharesOffered(options) == { <<>>, <<[i \in 1..options |-> 1]>> }

DecodeInit ==
  /\ head = VotePlanLedger_new
  /\ receiver = VotePlanLedger_new
  /\ last = [op |-> "new", id |-> NoPlanId, ret |-> [kind |-> "Ok"]]
  /\ now = 0
  /\ governance = <<>>
  /\ election = NoElection
  /\ wire = NoWire
  /\ storage = NoStorage
  /\ pools = NoPools
  /\ \E max_votes \in 0..DecodeMaxVotes, table_size \in 0..DecodeMaxTable :
       \E tally_state \in TallyStates :
         \E decrypt_shares \in SharesOffered(Len(tally_state)) :
           decoding = [max_votes |-> max_votes, table_size |-> table_size,
                       tally_state |-> tally_state,
                       decrypt_shares |-> decrypt_shares, tr |-> None]

\* result(max_votes, table_size, &tally_state, &decrypt_shares)
DecodeResult ==
  /\ decoding.tr = None
  /\ decoding' =
       [decoding EXCEPT
          !.tr = Some(result(decoding.max_votes, decoding.table_size,
                             decoding.tally_state, decoding.decrypt_shares))]
  /\ UNCHANGED <<head, receiver, last, now, governance, election, wire,
                 storage, pools>>

DecodeNext == DecodeResult

DecodeSpec == DecodeInit /\ [][DecodeNext]_vars

\* the sum of the Some(v) of the votes
RECURSIVE SumOfFound(_)
SumOfFound(votes) ==
  IF votes = <<>>
    THEN 0
  ELSE IF Len(votes) = 1
    THEN (IF votes[1] = None THEN 0 ELSE votes[1][1])
  ELSE SumOfFound(SubSeq(votes, 1, Len(votes) \div 2))
         + SumOfFound(SubSeq(votes, Len(votes) \div 2 + 1, Len(votes)))

\* C22: the votes result() finds never sum to more than max_votes, and the
\* budget vote_left never goes below zero, whatever the slots are (the
\* values found in the table included).
C22_BudgetNeverExceeded ==
  decoding.tr # None =>
    /\ ~decoding.tr[1].overflow
    /\ SumOfFound(decoding.tr[1].votes) <= decoding.max_votes

\* C23: result() returns, for every call, votes with one entry for each
\* slot of the tally state: a slot that is not found is None and the slots
\* after it are decoded.
C23_OneEntryPerSlot ==
  decoding.tr # None =>
    /\ ~decoding.tr[1].panic
    /\ Len(decoding.tr[1].votes) = Len(decoding.tally_state)

\* R_j of the call: the element r2 - sum of the r1 of the shares, slot j
DecryptedSlot(j) ==
  GroupElement_sub(decoding.tally_state[j],
                   GroupElement_sum([k \in 1..Len(decoding.decrypt_shares) |->
                                       decoding.decrypt_shares[k][j]]))

\* C33: the small-table stage of result().  A slot whose decrypted element
\* is the identity decodes to Some(0) whatever the budget left (0
\* included), and a slot equal to the table entry at position k (from 0,
\* k < table_size), the first one that matches, decodes to Some(k + 1):
\* for the search of one slot with every element and every budget, and in
\* the votes of every call of result() that returns.
C33_SmallTableStage ==
  /\ \A r \in GroupElement, vote_left \in 0..DecodeMaxVotes :
       LET table == GroupElement_table(decoding.table_size)
           slot == find_votes(r, decoding.table_size, vote_left)
       IN  /\ r = GroupElement_zero =>
                 ~slot.panic /\ slot.found = Some(0)
           /\ \A k \in 0..(decoding.table_size - 1) :
                (/\ r # GroupElement_zero
                 /\ table[k + 1] = r
                 /\ \A before \in 0..(k - 1) : table[before + 1] # r) =>
                  ~slot.panic /\ slot.found = Some(k + 1)
  /\ (decoding.tr # None /\ ~decoding.tr[1].panic) =>
       \A j \in 1..Len(decoding.tally_state) :
         /\ DecryptedSlot(j) = GroupElement_zero =>
               decoding.tr[1].votes[j] = Some(0)
         /\ \A k \in 0..(decoding.table_size - 1) :
              (/\ DecryptedSlot(j) # GroupElement_zero
               /\ GroupElement_table(decoding.table_size)[k + 1]
                    = DecryptedSlot(j)) =>
                decoding.tr[1].votes[j] = Some(k + 1)

\* the first slot took the whole budget from the table, the second is the
\* identity
C33_Witness ==
  /\ decoding.tr # None
  /\ decoding.max_votes = 3
  /\ decoding.table_size = 3
  /\ Len(decoding.tally_state) = 2
  /\ DecryptedSlot(1) = GroupElement_mul(GroupElement_generator, 3)
  /\ DecryptedSlot(2) = GroupElement_zero
  /\ decoding.tr[1].votes = <<Some(3), Some(0)>>

\* C34: the continuation stage of result().  A slot that is not in the
\* table is searched from the value table_size + 1 on, one generator at a
\* time, and a slot whose true value v is above table_size and at most the
\* budget left is recovered as Some(v): stated for the first slot of a
\* call, whose budget is max_votes.
C34_ContinuationRecovers ==
  (decoding.tr # None /\ ~decoding.tr[1].panic) =>
    \A v \in (decoding.table_size + 1)..decoding.max_votes :
      DecryptedSlot(1) = GroupElement_mul(GroupElement_generator, v) =>
        decoding.tr[1].votes[1] = Some(v)

\* C35: for every tally state of n <= 256 slots, 256 included, result()
\* returns votes of length n and the options 0..n, the range of exactly n
\* option indices.
C35_OptionsRange ==
  (decoding.tr # None /\ ~decoding.tr[1].panic) =>
    /\ Len(decoding.tr[1].votes) = Len(decoding.tally_state)
    /\ decoding.tr[1].options = [start |-> 0,
                                 end |-> Len(decoding.tally_state)]

\* C36: result() terminates on every input.  For each slot the loop that
\* steps by one generator makes at most max(0, budget left - table_size - 1)
\* steps, and the whole call makes at most n * max_votes of them, n the
\* number of slots.
C36_StepsBounded ==
  /\ \A r \in GroupElement, vote_left \in 0..DecodeMaxVotes :
       LET most == vote_left - decoding.table_size - 1
       IN  find_votes(r, decoding.table_size, vote_left).steps
             <= IF most > 0 THEN most ELSE 0
  /\ decoding.tr # None =>
       decoding.tr[1].steps
         <= Len(decoding.tally_state) * decoding.max_votes

\* C38: the decoder is sound.  Whenever result() reports Some(v) for the
\* slot j, v times the generator is c2_j minus the sum of the j-th elements
\* of the shares given: no value is reported that the decrypted element
\* does not encode, whatever max_votes and table_size >= 1 are.
C38_DecoderSound ==
  (decoding.tr # None /\ decoding.table_size >= 1) =>
    /\ ~decoding.tr[1].panic
    /\ \A j \in 1..Len(decoding.tr[1].votes) :
         decoding.tr[1].votes[j] # None =>
           GroupElement_mul(GroupElement_generator,
                            decoding.tr[1].votes[j][1]) = DecryptedSlot(j)

\* a call with a share: a slot found in the table and a slot found by the
\* steps after it
C38_Witness ==
  /\ decoding.tr # None
  /\ decoding.table_size = 2
  /\ decoding.decrypt_shares # <<>>
  /\ decoding.tr[1].votes = <<Some(2), Some(4)>>

(***************************************************************************)
(* chain-vote (lib.rs): the byte forms of EncryptedTally, TallyState and   *)
(* TallyDecryptShare.  A byte is a number of 0..255 and a buffer is a      *)
(* sequence of bytes.  The encoding of a group element is the big-endian   *)
(* number of the element on GROUP_ELEMENT_BYTES_LEN bytes: the buffers of  *)
(* that length that hold a number outside the group are no encoding of an  *)
(* element.                                                                *)
(***************************************************************************)
GROUP_ELEMENT_BYTES_LEN == 3

CIPHERTEXT_BYTES_LEN == 2 * GROUP_ELEMENT_BYTES_LEN

U64_BYTES_LEN == 8

\* a length no buffer of the model reaches: the numbers read from a buffer
\* saturate at it
LengthCap == 65536

\* the big-endian bytes of n on width bytes
RECURSIVE to_be_bytes(_, _)
to_be_bytes(n, width) ==
  IF width = 0
    THEN <<>>
    ELSE Append(to_be_bytes(n \div 256, width - 1), n % 256)

\* the number a big-endian buffer holds, up to LengthCap
RECURSIVE from_be_bytes(_)
from_be_bytes(bytes) ==
  IF bytes = <<>>
    THEN 0
    ELSE LET hi == from_be_bytes(SubSeq(bytes, 1, Len(bytes) - 1))
             n  == hi * 256 + bytes[Len(bytes)]
         IN  IF n > LengthCap THEN LengthCap ELSE n

GroupElement_to_bytes(e) == to_be_bytes(e, GROUP_ELEMENT_BYTES_LEN)

\* GroupElement::from_bytes, an Option<GroupElement>
GroupElement_from_bytes(bytes) ==
  IF Len(bytes) = GROUP_ELEMENT_BYTES_LEN /\ from_be_bytes(bytes) < GroupOrder
    THEN Some(from_be_bytes(bytes))
    ELSE None

Ciphertext_to_bytes(c) ==
  GroupElement_to_bytes(c.e1) \o GroupElement_to_bytes(c.e2)

\* Ciphertext::from_bytes: None on any sub-element failure
Ciphertext_from_bytes(bytes) ==
  LET e1 == GroupElement_from_bytes(
              SubSeq(bytes, 1, GROUP_ELEMENT_BYTES_LEN))
      e2 == GroupElement_from_bytes(
              SubSeq(bytes, GROUP_ELEMENT_BYTES_LEN + 1, Len(bytes)))
  IN  IF Len(bytes) # CIPHERTEXT_BYTES_LEN \/ e1 = None \/ e2 = None
        THEN None
        ELSE Some([e1 |-> e1[1], e2 |-> e2[1]])

\* bytes.chunks(size): the last chunk holds what is left
RECURSIVE chunks(_, _)
chunks(bytes, size) ==
  IF bytes = <<>>
    THEN <<>>
    ELSE IF Len(bytes) <= size
      THEN <<bytes>>
      ELSE <<SubSeq(bytes, 1, size)>>
             \o chunks(SubSeq(bytes, size + 1, Len(bytes)), size)

\* collect::<Option<Vec<_>>>(): None when one of the options is None
collect_option(options) ==
  IF \E i \in 1..Len(options) : options[i] = None
    THEN None
    ELSE Some([i \in 1..Len(options) |-> options[i][1]])

\* the buffers written one after the other
RECURSIVE write_all(_)
write_all(buffers) ==
  IF buffers = <<>>
    THEN <<>>
    ELSE Head(buffers) \o write_all(Tail(buffers))

EncryptedTally_to_bytes(r) ==
  write_all([i \in 1..Len(r) |-> Ciphertext_to_bytes(r[i])])

EncryptedTally_from_bytes(bytes) ==
  IF Len(bytes) % CIPHERTEXT_BYTES_LEN # 0
    THEN None
    ELSE LET slots == chunks(bytes, CIPHERTEXT_BYTES_LEN)
         IN  collect_option(
               [i \in 1..Len(slots) |-> Ciphertext_from_bytes(slots[i])])

group_elements_to_bytes(elements) ==
  write_all([i \in 1..Len(elements) |-> GroupElement_to_bytes(elements[i])])

\* a parser of the elements that takes a u64 count before them
group_elements_from_bytes_counted(bytes) ==
  IF Len(bytes) < U64_BYTES_LEN
       \/ (Len(bytes) - U64_BYTES_LEN) % GROUP_ELEMENT_BYTES_LEN # 0
    THEN None
    ELSE LET count == from_be_bytes(SubSeq(bytes, 1, U64_BYTES_LEN))
             slots == chunks(SubSeq(bytes, U64_BYTES_LEN + 1, Len(bytes)),
                             GROUP_ELEMENT_BYTES_LEN)
         IN  IF count # Len(slots)
               THEN None
               ELSE collect_option(
                      [i \in 1..Len(slots) |->
                         GroupElement_from_bytes(slots[i])])

group_elements_from_bytes(bytes) ==
  IF Len(bytes) % GROUP_ELEMENT_BYTES_LEN # 0
    THEN None
    ELSE LET slots == chunks(bytes, GROUP_ELEMENT_BYTES_LEN)
         IN  collect_option(
               [i \in 1..Len(slots) |-> GroupElement_from_bytes(slots[i])])

\* TallyDecryptShare::serialize: the u64 count, then the elements
TallyDecryptShare_serialize(r1s) ==
  to_be_bytes(Len(r1s), U64_BYTES_LEN)
    \o write_all([i \in 1..Len(r1s) |-> GroupElement_to_bytes(r1s[i])])

\* ReadBuf::get_slice: the next size bytes and the buffer after them, or a
\* ReadError when fewer are left
get_slice(buf, size) ==
  IF Len(buf) < size
    THEN [err |-> TRUE, v |-> <<>>, rest |-> buf]
    ELSE [err |-> FALSE, v |-> SubSeq(buf, 1, size),
          rest |-> SubSeq(buf, size + 1, Len(buf))]

\* ReadBuf::get_u64: the next eight bytes as a big-endian number
get_u64(buf) ==
  LET s == get_slice(buf, U64_BYTES_LEN)
  IN  [err |-> s.err, v |-> from_be_bytes(s.v), rest |-> s.rest]

ReadOk(v) == [panic |-> FALSE, r |-> [kind |-> "Ok", v |-> v]]

ReadErr == [panic |-> FALSE, r |-> [kind |-> "Err"]]

\* the unwrap of a None: the thread panics and nothing is returned
ReadPanic == [panic |-> TRUE, r |-> [kind |-> "none"]]

\* the loop of read (lib.rs:122-125): len elements are taken from the
\* buffer one after the other
RECURSIVE read_elements(_, _, _)
read_elements(buf, len, r1s) ==
  IF len = 0
    THEN ReadOk(r1s)
    ELSE LET elem_buf == get_slice(buf, GROUP_ELEMENT_BYTES_LEN)
             element  == GroupElement_from_bytes(elem_buf.v)
         IN  IF elem_buf.err
               THEN ReadErr
               ELSE IF element = None
                 THEN ReadPanic
                 ELSE read_elements(elem_buf.rest, len - 1,
                                    Append(r1s, element[1]))

\* <TallyDecryptShare as Readable>::read
TallyDecryptShare_read(buf) ==
  LET len == get_u64(buf)
  IN  IF len.err THEN ReadErr ELSE read_elements(len.rest, len.v, <<>>)

(***************************************************************************)
(* The life of one buffer: a value of one of the three types is written by *)
(* to_bytes or by serialize, the buffer is left as it is or is truncated,  *)
(* extended or damaged on its way, and it is parsed by from_bytes or by    *)
(* read.                                                                   *)
(***************************************************************************)
MaxWireLen == 2

\* the values of a type: the slots of an EncryptedTally (the ciphertext
\* zero and an encryption of one vote), the elements of a TallyState or of
\* a TallyDecryptShare (zero, g and -g)
WireValues(type) ==
  UNION { [1..n -> (IF type = "EncryptedTally"
                      THEN {Ciphertext_zero, encrypt(TallyKey, 1, 2)}
                      ELSE {GroupElement_zero, GroupElement_generator,
                            GroupElement_mul(GroupElement_generator,
                                             GroupOrder - 1)})]
          : n \in 0..MaxWireLen }

\* to_bytes of the type: TallyState::to_bytes and
\* TallyDecryptShare::to_bytes are group_elements_to_bytes of the elements
to_bytes(type, x) ==
  CASE type = "EncryptedTally"    -> EncryptedTally_to_bytes(x)
    [] type = "TallyState"        -> group_elements_to_bytes(x)
    [] type = "TallyDecryptShare" -> group_elements_to_bytes(x)

\* from_bytes of the type: TallyState::from_bytes and
\* TallyDecryptShare::from_bytes are group_elements_from_bytes
from_bytes(type, bytes) ==
  CASE type = "EncryptedTally"    -> EncryptedTally_from_bytes(bytes)
    [] type = "TallyState"        -> group_elements_from_bytes(bytes)
    [] type = "TallyDecryptShare" -> group_elements_from_bytes(bytes)

WireInit ==
  /\ head = VotePlanLedger_new
  /\ receiver = VotePlanLedger_new
  /\ last = [op |-> "new", id |-> NoPlanId, ret |-> [kind |-> "Ok"]]
  /\ now = 0
  /\ governance = <<>>
  /\ election = NoElection
  /\ decoding = NoDecoding
  /\ storage = NoStorage
  /\ pools = NoPools
  /\ \E type \in {"EncryptedTally", "TallyState", "TallyDecryptShare"} :
     \E x \in WireValues(type) :
       wire = [type |-> type, x |-> x, bytes |-> <<>>, writer |-> "none",
               tamper |-> "none", reader |-> "none", parsed |-> None,
               read |-> [panic |-> FALSE, r |-> [kind |-> "none"]]]

WireToBytes ==
  /\ wire.writer = "none"
  /\ wire' = [wire EXCEPT !.writer = "to_bytes",
                          !.bytes = to_bytes(wire.type, wire.x)]
  /\ UNCHANGED <<head, receiver, last, now, governance, election, decoding,
                 storage, pools>>

WireSerialize ==
  /\ wire.writer = "none"
  /\ wire.type = "TallyDecryptShare"
  /\ wire' = [wire EXCEPT !.writer = "serialize",
                          !.bytes = TallyDecryptShare_serialize(wire.x)]
  /\ UNCHANGED <<head, receiver, last, now, governance, election, decoding,
                 storage, pools>>

\* the buffer loses its last k bytes, k > 0
WireTruncate ==
  /\ wire.writer # "none"
  /\ wire.tamper = "none"
  /\ wire.reader = "none"
  /\ \E k \in 1..Len(wire.bytes) :
       wire' = [wire EXCEPT !.tamper = "truncated",
                            !.bytes = SubSeq(wire.bytes, 1,
                                             Len(wire.bytes) - k)]
  /\ UNCHANGED <<head, receiver, last, now, governance, election, decoding,
                 storage, pools>>

\* bytes are written after the buffer: one byte, an element, a buffer of
\* the length of an element that is none, a ciphertext
WireExtend ==
  /\ wire.writer # "none"
  /\ wire.tamper = "none"
  /\ wire.reader = "none"
  /\ \E more \in {<<0>>, GroupElement_to_bytes(GroupElement_generator),
                  <<255, 255, 255>>, Ciphertext_to_bytes(Ciphertext_zero)} :
       wire' = [wire EXCEPT !.tamper = "extended",
                            !.bytes = wire.bytes \o more]
  /\ UNCHANGED <<head, receiver, last, now, governance, election, decoding,
                 storage, pools>>

\* one byte of the buffer is replaced by a byte no written buffer holds
WireDamage ==
  /\ wire.writer # "none"
  /\ wire.tamper = "none"
  /\ wire.reader = "none"
  /\ \E i \in 1..Len(wire.bytes) :
       wire' = [wire EXCEPT !.tamper = "damaged", !.bytes[i] = 255]
  /\ UNCHANGED <<head, receiver, last, now, governance, election, decoding,
                 storage, pools>>

WireFromBytes ==
  /\ wire.writer # "none"
  /\ wire.reader = "none"
  /\ wire' = [wire EXCEPT !.reader = "from_bytes",
                          !.parsed = from_bytes(wire.type, wire.bytes)]
  /\ UNCHANGED <<head, receiver, last, now, governance, election, decoding,
                 storage, pools>>

WireRead ==
  /\ wire.writer # "none"
  /\ wire.reader = "none"
  /\ wire.type = "TallyDecryptShare"
  /\ wire' = [wire EXCEPT !.reader = "read",
                          !.read = TallyDecryptShare_read(wire.bytes)]
  /\ UNCHANGED <<head, receiver, last, now, governance, election, decoding,
                 storage, pools>>

WireNext ==
  \/ WireToBytes
  \/ WireSerialize
  \/ WireTruncate
  \/ WireExtend
  \/ WireDamage
  \/ WireFromBytes
  \/ WireRead

WireSpec == WireInit /\ [][WireNext]_vars

\* C26: from_bytes(to_bytes(x)) is Some of x, with the same elements in the
\* same order, for every EncryptedTally, TallyState and TallyDecryptShare x,
\* the empty one included.
C26_RoundTrip ==
  /\ \A x \in WireValues(wire.type) :
       from_bytes(wire.type, to_bytes(wire.type, x)) = Some(x)
  /\ (wire.writer = "to_bytes" /\ wire.tamper = "none"
        /\ wire.reader = "from_bytes")
       => wire.parsed = Some(wire.x)

C26_Witness ==
  /\ wire.writer = "to_bytes"
  /\ wire.tamper = "none"
  /\ wire.reader = "from_bytes"
  /\ Len(wire.x) = MaxWireLen
  /\ wire.x[1] # wire.x[2]
  /\ wire.parsed = Some(wire.x)

\* C27: from_bytes of to_bytes(x) truncated by any positive number of
\* bytes, or extended by any positive number of bytes, is None: by a whole
\* slot and down to the empty buffer too.
C27_TruncatedOrExtendedRejected ==
  (wire.writer = "to_bytes" /\ wire.tamper \in {"truncated", "extended"}
     /\ wire.reader = "from_bytes")
    => wire.parsed = None

\* C28: the bytes of a TallyDecryptShare and of a TallyState are the
\* big-endian u64 count of the elements followed by that many elements,
\* whichever serializer wrote them, and each parser of the type takes the
\* bytes of each serializer of the type back to the value.
C28_OneByteForm ==
  (wire.type \in {"TallyDecryptShare", "TallyState"}
     /\ wire.writer # "none" /\ wire.tamper = "none")
    => /\ wire.bytes = to_be_bytes(Len(wire.x), U64_BYTES_LEN)
                         \o group_elements_to_bytes(wire.x)
       /\ wire.reader = "from_bytes" => wire.parsed = Some(wire.x)
       /\ wire.reader = "read" => wire.read = ReadOk(wire.x)

\* C29: read of a buffer that holds an element that is no encoding of a
\* group element, or a count larger than the elements that follow it,
\* returns a ReadError: it never panics.
C29_MalformedIsError ==
  (wire.writer = "serialize" /\ wire.tamper \in {"truncated", "damaged"}
     /\ wire.reader = "read")
    => wire.read = ReadErr

(***************************************************************************)
(* The life of one trie: keys and values are u8 in the test, a few of them *)
(* here.  Every put and remove is applied to the trie the one before       *)
(* returned.                                                               *)
(***************************************************************************)
MaxTrieKey == 3

MaxTrieValue == 2

TrieInit ==
  /\ head = VotePlanLedger_new
  /\ receiver = VotePlanLedger_new
  /\ last = [op |-> "new", id |-> NoPlanId, ret |-> [kind |-> "Ok"]]
  /\ now = 0
  /\ governance = <<>>
  /\ election = NoElection
  /\ decoding = NoDecoding
  /\ wire = NoWire
  /\ storage = [trie |-> Trie_new, panic |-> FALSE,
                op |-> "new", key |-> 0, had |-> FALSE]
  /\ pools = NoPools

TriePut ==
  /\ ~storage.panic
  /\ \E key \in 0..MaxTrieKey, value \in 0..MaxTrieValue :
       LET r == Trie_put(storage.trie, key, value)
       IN  storage' = [trie |-> r.trie, panic |-> r.panic, op |-> "put",
                       key |-> key, had |-> key \in DOMAIN storage.trie]
  /\ UNCHANGED <<head, receiver, last, now, governance, election, decoding,
                 wire, pools>>

TrieRemove ==
  /\ ~storage.panic
  /\ \E key \in 0..MaxTrieKey :
       LET r == Trie_remove(storage.trie, key)
       IN  storage' = [trie |-> r.trie, panic |-> r.panic, op |-> "remove",
                       key |-> key, had |-> key \in DOMAIN storage.trie]
  /\ UNCHANGED <<head, receiver, last, now, governance, election, decoding,
                 wire, pools>>

TrieNext == TriePut \/ TrieRemove

TrieSpec == TrieInit /\ [][TrieNext]_vars

\* C31: on every trie, for every key and values v1 and v2: get(key) after
\* put(key, v1) is Some(v1); a further put(key, v2) makes it Some(v2) and
\* fails in no way; remove(key) then makes it None; a remove of the key,
\* now absent, returns a trie equal to its input, without error.  No put
\* and no remove touches another key.
C31_PutGetRemove ==
  /\ ~storage.panic
  /\ \A key \in 0..MaxTrieKey :
       \A value1 \in 0..MaxTrieValue, value2 \in 0..MaxTrieValue :
         LET new1 == Trie_put(storage.trie, key, value1)
             new2 == Trie_put(new1.trie, key, value2)
             new3 == Trie_remove(new2.trie, key)
             new4 == Trie_remove(new3.trie, key)
         IN  /\ ~new1.panic /\ ~new2.panic /\ ~new3.panic /\ ~new4.panic
             /\ Trie_get(new1.trie, key) = {value1}
             /\ Trie_get(new2.trie, key) = {value2}
             /\ Trie_get(new3.trie, key) = {}
             /\ new4.trie = new3.trie
             /\ \A other \in (0..MaxTrieKey) \ {key} :
                  /\ Trie_get(new2.trie, other) = Trie_get(storage.trie, other)
                  /\ Trie_get(new3.trie, other) = Trie_get(storage.trie, other)
  /\ storage.op = "put" => Trie_get(storage.trie, storage.key) # {}
  /\ storage.op = "remove" => Trie_get(storage.trie, storage.key) = {}

\* a key that is absent was removed from a trie that holds other keys
C31_Witness ==
  /\ storage.op = "remove"
  /\ ~storage.had
  /\ ~storage.panic
  /\ Cardinality(DOMAIN storage.trie) >= 2

(***************************************************************************)
(* chain-impl-mockchain (ledger/tests/certificate_tests/                   *)
(* pool_registration.rs): the registration of a stake pool.  The ledger    *)
(* keeps the pools it registered; a fragment carries the certificate of a  *)
(* pool (its owners and its management threshold) and the signatures of    *)
(* the signers.  Each pool the builder makes is a new one.                 *)
(***************************************************************************)
MaxPoolCerts == 2

MaxManagementThreshold == 4

PoolWallets == {"alice", "bob", "clarice"}

\* a check of the threshold that takes any threshold up to the number of
\* owners, zero included
valid_pool_registration_certificate_from_zero(owners, management_threshold) ==
  IF management_threshold > Cardinality(owners)
    THEN [kind |-> "PoolRegistrationManagementThresholdAbove"]
    ELSE [kind |-> "Ok"]

\* the check of the certificate: the management threshold is at least one
\* and at most the number of owners
valid_pool_registration_certificate(owners, management_threshold) ==
  IF management_threshold = 0
    THEN [kind |-> "PoolRegistrationManagementThresholdZero"]
    ELSE IF management_threshold > Cardinality(owners)
      THEN [kind |-> "PoolRegistrationManagementThresholdAbove"]
      ELSE [kind |-> "Ok"]

\* apply_fragment of a registration: the Result with the new ledger, or
\* the error; the signers are the owners, or the fragment is rejected
apply_pool_registration(ledger, pool, signers) ==
  LET valid == valid_pool_registration_certificate(pool.owners,
                                                   pool.management_threshold)
  IN  IF valid.kind # "Ok"
        THEN [ret |-> valid, ledger |-> ledger]
        ELSE IF signers # pool.owners
          THEN [ret |-> [kind |-> "CertificateInvalidSignature"],
                ledger |-> ledger]
          ELSE [ret |-> [kind |-> "Ok"], ledger |-> ledger \cup {pool}]

PoolInit ==
  /\ head = VotePlanLedger_new
  /\ receiver = VotePlanLedger_new
  /\ last = [op |-> "new", id |-> NoPlanId, ret |-> [kind |-> "Ok"]]
  /\ now = 0
  /\ governance = <<>>
  /\ election = NoElection
  /\ decoding = NoDecoding
  /\ wire = NoWire
  /\ storage = NoStorage
  /\ pools = NoPools

\* the test ledger applies one more fragment and keeps the ledger the
\* fragment gives when it is accepted
PoolRegister ==
  /\ pools.fragments < MaxPoolCerts
  /\ \E owners \in (SUBSET PoolWallets) \ {{}} :
     \E management_threshold \in 0..MaxManagementThreshold :
     \E signers \in {owners, {}, PoolWallets} :
       LET pool == [owners |-> owners,
                    management_threshold |-> management_threshold,
                    serial |-> pools.fragments + 1]
           r == apply_pool_registration(pools.registered, pool, signers)
       IN  pools' = [registered |-> r.ledger, ret |-> r.ret,
                     before |-> pools.registered,
                     fragments |-> pools.fragments + 1,
                     pool |-> pool, signers |-> signers]
  /\ UNCHANGED <<head, receiver, last, now, governance, election, decoding,
                 wire, storage>>

PoolNext == PoolRegister

PoolSpec == PoolInit /\ [][PoolNext]_vars

AddRet(d, p, c) == add_vote_plan(head, d, p, c).ret

NoKeys(p) == p.committee_public_keys = <<>>

PlanOf(id) == CHOOSE p \in Plans : to_id(p) = id

\* C1: every plan stored in the ledger has
\* vote_start <= vote_end <= committee_end.
C1_StoredPlansOrdered ==
  \A id \in DOMAIN head :
    /\ head[id].plan.vote_start <= head[id].plan.vote_end
    /\ head[id].plan.vote_end <= head[id].plan.committee_end

\* C2: add_vote_plan at a date after vote_start returns an error and no
\* ledger; for a plan with vote_start <= vote_end a date up to and including
\* vote_start gives neither of the two temporal errors.
C2_AddAfterStartRejected ==
  \A d \in {now}, p \in Plans, c \in Committees :
    LET ret == AddRet(d, p, c)
    IN  /\ d > p.vote_start =>
             /\ ret.kind \in {"VotePlanVoteEndPassed",
                              "VotePlanVoteStartStartedAlready"}
             /\ "plans" \notin DOMAIN ret
        /\ (p.vote_start <= p.vote_end /\ d <= p.vote_start) =>
             ret.kind \notin {"VotePlanVoteEndPassed",
                              "VotePlanVoteStartStartedAlready"}

\* a plan was offered after its vote_start and before its vote_end, and was
\* rejected for that
C2_Witness ==
  /\ last.op = "add_vote_plan"
  /\ last.ret.kind = "VotePlanVoteStartStartedAlready"
  /\ last.ret.current_date > PlanOf(last.id).vote_start
  /\ last.ret.current_date <= PlanOf(last.id).vote_end
  /\ head = receiver

\* C3: add_vote_plan at a date after vote_end returns VotePlanVoteEndPassed
\* with that date and the plan's vote_end, whatever else is wrong with the
\* plan (vote_start passed, no committee key, id already stored).
C3_VoteEndPassedFirst ==
  \A d \in {now}, p \in Plans, c \in Committees :
    d > p.vote_end =>
      AddRet(d, p, c) = [kind |-> "VotePlanVoteEndPassed",
                         current_date |-> d, vote_end |-> p.vote_end]

\* a plan that is already stored was offered again after its vote_end and its
\* vote_start
C3_Witness ==
  /\ last.op = "add_vote_plan"
  /\ last.ret.kind = "VotePlanVoteEndPassed"
  /\ last.id \in DOMAIN head
  /\ last.ret.current_date > PlanOf(last.id).vote_start

StoredPrivatePlansHaveKey ==
  \A id \in DOMAIN head :
    head[id].plan.payload_type = "Private" => ~NoKeys(head[id].plan)

\* C4 as stated: every stored Private plan has a committee key; a Private plan
\* without a key offered at a date not after vote_start gets
\* VotePlanMissingCommitteeMemberKey; a Public plan without a key, not yet
\* stored, is accepted at such a date.
C4_AsStated ==
  /\ StoredPrivatePlansHaveKey
  /\ \A d \in {now}, p \in Plans, c \in Committees :
       LET ret == AddRet(d, p, c)
       IN  (NoKeys(p) /\ d <= p.vote_start) =>
             IF p.payload_type = "Private"
               THEN ret = [kind |-> "VotePlanMissingCommitteeMemberKey"]
               ELSE to_id(p) \notin DOMAIN head => ret.kind = "Ok"

\* C4 (amended): every stored Private plan has a committee key; a Private plan
\* without a key offered at a date after neither vote_start nor vote_end gets
\* VotePlanMissingCommitteeMemberKey and no ledger; a Public plan without a
\* key, not yet stored, is accepted at such a date.
C4_PrivatePlanNeedsKey ==
  /\ StoredPrivatePlansHaveKey
  /\ \A d \in {now}, p \in Plans, c \in Committees :
       LET ret == AddRet(d, p, c)
       IN  (NoKeys(p) /\ d <= p.vote_start /\ d <= p.vote_end) =>
             IF p.payload_type = "Private"
               THEN ret = [kind |-> "VotePlanMissingCommitteeMemberKey"]
               ELSE to_id(p) \notin DOMAIN head =>
                      /\ ret.kind = "Ok"
                      /\ to_id(p) \in DOMAIN ret.plans

\* a Private plan without a key was offered in time and rejected, and the
\* ledger is as it was
C4_Witness ==
  /\ last.op = "add_vote_plan"
  /\ last.ret.kind = "VotePlanMissingCommitteeMemberKey"
  /\ PlanOf(last.id).payload_type = "Private"
  /\ NoKeys(PlanOf(last.id))
  /\ last.id \notin DOMAIN head
  /\ head = receiver

\* C5 as stated: add_vote_plan of a plan whose id is stored returns
\* VotePlanInsertionError with that id.
C5_AsStated ==
  \A d \in {now}, p \in Plans, c \in Committees :
    LET ret == AddRet(d, p, c)
    IN  to_id(p) \in DOMAIN head =>
          /\ ret.kind = "VotePlanInsertionError"
          /\ ret.id = to_id(p)

\* C5 (amended): add_vote_plan of a plan whose id is stored returns no
\* ledger; when the date and committee key checks pass it returns
\* VotePlanInsertionError with that id; the stored manager stays as it is.
C5_DuplicateRejected ==
  \A d \in {now}, p \in Plans, c \in Committees :
    LET r == add_vote_plan(head, d, p, c)
    IN  to_id(p) \in DOMAIN head =>
          /\ r.ret.kind # "Ok"
          /\ "plans" \notin DOMAIN r.ret
          /\ (d <= p.vote_start /\ d <= p.vote_end
                /\ ~(p.payload_type = "Private" /\ NoKeys(p))) =>
               r.ret = [kind |-> "VotePlanInsertionError",
                        id |-> to_id(p), reason |-> "EntryExists"]
          /\ r.self = head

\* a stored plan whose manager holds a vote was offered again in time:
\* VotePlanInsertionError, and the manager kept its vote
C5_Witness ==
  /\ last.op = "add_vote_plan"
  /\ last.ret = [kind |-> "VotePlanInsertionError", id |-> last.id,
                 reason |-> "EntryExists"]
  /\ last.id \in DOMAIN head
  /\ now <= head[last.id].plan.vote_start
  /\ \E a \in Accounts : head[last.id].votes[0][a] # NoChoice
  /\ head = receiver

\* C6: a successful add_vote_plan returns a ledger that stores under
\* plan.to_id() a manager in Voting with the given plan and committee and no
\* vote.
C6_FreshManager ==
  \A d \in {now}, p \in Plans, c \in Committees :
    LET ret == AddRet(d, p, c)
    IN  ret.kind = "Ok" =>
          /\ to_id(p) \in DOMAIN ret.plans
          /\ LET manager == ret.plans[to_id(p)]
             IN  /\ manager.status = "Voting"
                 /\ manager.plan = p
                 /\ manager.committee = c
                 /\ DOMAIN manager.votes = 0..(p.proposals - 1)
                 /\ \A i \in DOMAIN manager.votes :
                      \A a \in Accounts : manager.votes[i][a] = NoChoice

\* a plan was added to a ledger that holds a plan with a vote: the new
\* manager is in Voting without a vote
C6_Witness ==
  /\ last.op = "add_vote_plan"
  /\ last.ret.kind = "Ok"
  /\ last.id \in DOMAIN head
  /\ last.id \notin DOMAIN receiver
  /\ head[last.id].status = "Voting"
  /\ \A a \in Accounts : head[last.id].votes[0][a] = NoChoice
  /\ \E other \in DOMAIN head :
       /\ other # last.id
       /\ \E a \in Accounts : head[other].votes[0][a] # NoChoice

(***************************************************************************)
(* Properties of the four operations together.                             *)
(***************************************************************************)
\* the votes a VoteCast fragment can carry for the plan id
VoteCasts(id) == [vote_plan : {id}, proposal_index : 0..1, payload : Payloads]

\* C7: no operation changes its receiver: after every call, accepted or
\* rejected, the ledger it was called on holds what it held before the call;
\* a rejected call leaves the head, an accepted one makes a new ledger.
C7_ReceiverUntouched ==
  [][last'.op # "new_block" =>
       /\ receiver' = head
       /\ last'.ret.kind # "Ok" => head' = head]_vars

\* a vote was accepted: the ledger it was applied to still has the manager
\* without that vote, the returned ledger has it
C7_Witness ==
  /\ last.op = "apply_vote"
  /\ last.ret.kind = "Ok"
  /\ receiver # head
  /\ DOMAIN receiver = DOMAIN head
  /\ \A a \in Accounts : receiver[last.id].votes[0][a] = NoChoice
  /\ \E a \in Accounts : head[last.id].votes[0][a] # NoChoice

\* the result of the manager's transition that apply_committee_result asks for
CommitteeTransition(m, d, tally, sig) ==
  IF sig.type = "Public"
    THEN Manager_public_tally(m, d, sig.id)
    ELSE Manager_finalize_private_tally(m, tally.shares)

\* C8: apply_vote, apply_encrypted_vote_tally and apply_committee_result,
\* called with the date of the current block, return VoteError with the plan
\* id of the certificate, and no ledger, when
\* the id is not stored (reason KeyNotFound) and when the manager's
\* transition fails (with the reason of the manager).
C8_VoteErrorCarriesId ==
  \A d \in {now}, id \in CertIds :
    /\ \A a \in Accounts, cast \in VoteCasts(id) :
         LET ret == apply_vote(head, d, a, cast).ret
             m == Manager_vote(head[id], d, a, cast)
         IN  IF id \notin DOMAIN head
               THEN ret = [kind |-> "VoteError", id |-> id,
                           reason |-> "KeyNotFound"]
               ELSE ~m.ok =>
                      ret = [kind |-> "VoteError", id |-> id,
                             reason |-> m.reason]
    /\ \A cid \in CommitteeIds :
         LET ret == apply_encrypted_vote_tally(head, d, [id |-> id], cid).ret
             m == Manager_start_private_tally(head[id], d, cid)
         IN  IF id \notin DOMAIN head
               THEN ret = [kind |-> "VoteError", id |-> id,
                           reason |-> "KeyNotFound"]
               ELSE ~m.ok =>
                      ret = [kind |-> "VoteError", id |-> id,
                             reason |-> m.reason]
    /\ \A sig \in TallyProofs, tally \in VoteTallies(id) :
         LET ret == apply_committee_result(head, d, tally, sig).ret
             m == CommitteeTransition(head[id], d, tally, sig)
         IN  IF id \notin DOMAIN head
               THEN ret = [kind |-> "VoteError", id |-> id,
                           reason |-> "KeyNotFound"]
               ELSE (/\ sig.type = "Private" => tally.tally_type = "Private"
                     /\ ~m.ok) =>
                      ret = [kind |-> "VoteError", id |-> id,
                             reason |-> m.reason]

\* a tally for a stored plan was rejected by its manager
C8_Witness ==
  /\ last.op = "apply_committee_result"
  /\ last.id \in DOMAIN head
  /\ last.ret = [kind |-> "VoteError", id |-> last.id,
                 reason |-> "NotCommitteeTime"]
  /\ head = receiver

ErrorKinds ==
  {"VotePlanInsertionError", "VoteError", "VotePlanVoteEndPassed",
   "VotePlanVoteStartStartedAlready", "VotePlanMissingCommitteeMemberKey"}

\* C9 as stated: every error a ledger operation returns carries the id of the
\* vote plan it is about.
C9_AsStated ==
  last.ret.kind \in ErrorKinds =>
    ("id" \in DOMAIN last.ret /\ last.ret.id = last.id)

\* C9 (amended): VotePlanInsertionError and VoteError carry the id of the vote
\* plan; VotePlanVoteEndPassed carries the current date and the vote_end of
\* the plan, VotePlanVoteStartStartedAlready the current date and its
\* vote_start, VotePlanMissingCommitteeMemberKey nothing: none of these three
\* carries the plan id.
C9_ErrorFields ==
  /\ last.ret.kind \in ErrorKinds \cup {"Ok", "Panic"}
  /\ last.ret.kind \in {"VotePlanInsertionError", "VoteError"} =>
       /\ DOMAIN last.ret = {"kind", "id", "reason"}
       /\ last.ret.id = last.id
  /\ last.ret.kind = "VotePlanVoteEndPassed" =>
       /\ DOMAIN last.ret = {"kind", "current_date", "vote_end"}
       /\ last.ret.vote_end = PlanOf(last.id).vote_end
       /\ last.ret.current_date \in Dates
       /\ last.ret.current_date > last.ret.vote_end
  /\ last.ret.kind = "VotePlanVoteStartStartedAlready" =>
       /\ DOMAIN last.ret = {"kind", "current_date", "vote_start"}
       /\ last.ret.vote_start = PlanOf(last.id).vote_start
       /\ last.ret.current_date \in Dates
       /\ last.ret.current_date > last.ret.vote_start
  /\ last.ret.kind = "VotePlanMissingCommitteeMemberKey" =>
       DOMAIN last.ret = {"kind"}

\* an error that does not carry the plan id was returned
C9_Witness ==
  /\ last.op = "add_vote_plan"
  /\ last.ret.kind = "VotePlanVoteEndPassed"
  /\ "id" \notin DOMAIN last.ret
  /\ last.ret.vote_end = PlanOf(last.id).vote_end

\* C10: apply_vote on a stored plan is accepted only at a date d with
\* vote_start <= d <= vote_end, for a proposal index in range and a manager in
\* Voting; a vote at d > vote_end or d < vote_start is rejected with a
\* VoteError, no ledger is returned and the ledger keeps the manager as it was.
C10_VoteWindow ==
  \A d \in {now}, id \in DOMAIN head, a \in Accounts :
   \A cast \in VoteCasts(id) :
    LET r == apply_vote(head, d, a, cast)
        m == head[id]
    IN  /\ r.ret.kind = "Ok" =>
             /\ m.plan.vote_start <= d
             /\ d <= m.plan.vote_end
             /\ cast.proposal_index < m.plan.proposals
             /\ m.status = "Voting"
        /\ (d > m.plan.vote_end \/ d < m.plan.vote_start) =>
             /\ r.ret.kind = "VoteError"
             /\ r.ret.id = id
             /\ "plans" \notin DOMAIN r.ret
             /\ r.self = head

\* a vote for a stored plan in Voting came after vote_end and was rejected;
\* the manager has the vote it had
C10_Witness ==
  /\ last.op = "apply_vote"
  /\ last.id \in DOMAIN head
  /\ last.ret = [kind |-> "VoteError", id |-> last.id, reason |-> "NotVoteTime"]
  /\ now > head[last.id].plan.vote_end
  /\ head[last.id].status = "Voting"
  /\ \E a \in Accounts : head[last.id].votes[0][a] # NoChoice
  /\ head = receiver

(***************************************************************************)
(* Properties of the life of a manager: Voting, TallyStarted, Finished.    *)
(***************************************************************************)
StatusRank(status) ==
  IF status = "Voting" THEN 0 ELSE IF status = "TallyStarted" THEN 1 ELSE 2

\* every Result of a committee certificate for the plan id, at any date
CommitteeRets(h, id) ==
  { apply_encrypted_vote_tally(h, d, [id |-> id], cid).ret :
      d \in Dates, cid \in CommitteeIds }
    \cup { apply_committee_result(h, d, tally, sig).ret :
             d \in Dates, tally \in VoteTallies(id), sig \in TallyProofs }

\* C11: the status of every manager only moves forward in the order Voting,
\* TallyStarted, Finished: no step of the ledger removes a plan or moves a
\* manager to an earlier status, a Finished manager stays as it is, and every
\* tally and tally start for a Finished plan is rejected.
C11_StatusMonotonic ==
  /\ [](\A id \in DOMAIN head :
          head[id].status = "Finished" =>
            \A ret \in CommitteeRets(head, id) : ret.kind # "Ok")
  /\ [][\A id \in DOMAIN head :
          /\ id \in DOMAIN head'
          /\ StatusRank(head'[id].status) >= StatusRank(head[id].status)
          /\ head[id].status = "Finished" => head'[id] = head[id]]_vars

\* a tally start for a Finished private plan was rejected, in the committee
\* time of the plan
C11_Witness ==
  /\ last.op = "apply_encrypted_vote_tally"
  /\ last.id \in DOMAIN head
  /\ head[last.id].status = "Finished"
  /\ head[last.id].plan.payload_type = "Private"
  /\ now <= head[last.id].plan.committee_end
  /\ last.ret = [kind |-> "VoteError", id |-> last.id,
                 reason |-> "TallyAlreadyStarted"]

\* C12: apply_encrypted_vote_tally is accepted only for a Private plan in
\* Voting, at a date d with vote_end <= d <= committee_end and with a
\* committee id of the manager's committee, and then the manager is in
\* TallyStarted; for a Private plan in Voting an earlier or later date or
\* another committee id gives a VoteError and no ledger, and the status stays
\* Voting.
C12_TallyStartWindow ==
  \A d \in {now}, id \in DOMAIN head, cid \in CommitteeIds :
    LET r == apply_encrypted_vote_tally(head, d, [id |-> id], cid)
        m == head[id]
    IN  /\ r.ret.kind = "Ok" =>
             /\ m.plan.payload_type = "Private"
             /\ m.status = "Voting"
             /\ m.plan.vote_end <= d
             /\ d <= m.plan.committee_end
             /\ cid \in m.committee
             /\ r.ret.plans[id].status = "TallyStarted"
             /\ \A x \in DOMAIN head \ {id} : r.ret.plans[x] = head[x]
        /\ (/\ m.plan.payload_type = "Private"
            /\ m.status = "Voting"
            /\ \/ d < m.plan.vote_end
               \/ d > m.plan.committee_end
               \/ cid \notin m.committee) =>
             /\ r.ret.kind = "VoteError"
             /\ r.ret.id = id
             /\ "plans" \notin DOMAIN r.ret
             /\ r.self = head

\* a tally start signed by somebody who is not in the committee was rejected
\* in the committee time of a Private plan, which is still in Voting
C12_Witness ==
  /\ last.op = "apply_encrypted_vote_tally"
  /\ last.id \in DOMAIN head
  /\ last.ret = [kind |-> "VoteError", id |-> last.id,
                 reason |-> "InvalidTallyCommittee"]
  /\ head[last.id].plan.payload_type = "Private"
  /\ head[last.id].plan.vote_end <= now
  /\ now <= head[last.id].plan.committee_end
  /\ head[last.id].status = "Voting"
  /\ head = receiver

\* C13: once a manager is in TallyStarted or Finished every apply_vote for
\* its plan is rejected, at every date (vote_end, where a vote and a tally
\* start are both in time, included), and no step changes the votes it holds.
C13_NoVoteAfterVoting ==
  /\ [](\A id \in DOMAIN head :
          head[id].status # "Voting" =>
            \A d \in Dates, a \in Accounts :
              \A cast \in VoteCasts(id) :
                LET ret == apply_vote(head, d, a, cast).ret
                IN  /\ ret.kind = "VoteError"
                    /\ ret.id = id
                    /\ "plans" \notin DOMAIN ret)
  /\ [][\A id \in DOMAIN head :
          head[id].status # "Voting" => head'[id].votes = head[id].votes]_vars

\* at vote_end a vote came for a plan whose tally had started, and was
\* rejected for that
C13_Witness ==
  /\ last.op = "apply_vote"
  /\ last.id \in DOMAIN head
  /\ now = head[last.id].plan.vote_end
  /\ head[last.id].status = "TallyStarted"
  /\ last.ret = [kind |-> "VoteError", id |-> last.id,
                 reason |-> "VotingClosed"]
  /\ head = receiver

\* the tallies a committee member signs with a proof of the type: tally_sign
\* takes the type of the proof from the tally
SignedTallies(id, type) == { t \in VoteTallies(id) : t.tally_type = type }

\* C16: apply_committee_result at a date after committee_end of the plan
\* returns a VoteError and no ledger, with a Public and with a Private proof.
C16_RejectedAfterCommitteeEnd ==
  \A d \in Dates, id \in DOMAIN head, sig \in TallyProofs :
    \A tally \in SignedTallies(id, sig.type) :
      d > head[id].plan.committee_end =>
        LET ret == apply_committee_result(head, d, tally, sig).ret
        IN  ret.kind = "VoteError" /\ "plans" \notin DOMAIN ret

\* C17: a tally with a Public proof is accepted only for a Public plan in
\* Voting and finishes it; apply_encrypted_vote_tally is accepted only for a
\* Private plan; a Public plan is never in TallyStarted; a Private plan gets
\* to Finished only from TallyStarted, a Public one only from Voting.
C17_TallyPathsExclusive ==
  /\ [](\A id \in DOMAIN head :
          LET m == head[id]
          IN  /\ m.plan.payload_type = "Public" => m.status # "TallyStarted"
              /\ \A d \in Dates, sig \in TallyProofs :
                   \A tally \in VoteTallies(id) :
                     LET ret == apply_committee_result(head, d, tally, sig).ret
                     IN  (sig.type = "Public" /\ ret.kind = "Ok") =>
                           /\ m.plan.payload_type = "Public"
                           /\ m.status = "Voting"
                           /\ ret.plans[id].status = "Finished"
              /\ \A d \in Dates, cid \in CommitteeIds :
                   apply_encrypted_vote_tally(head, d, [id |-> id], cid).ret.kind
                       = "Ok"
                     => m.plan.payload_type = "Private")
  /\ [][\A id \in DOMAIN head :
          (head'[id].status = "Finished" /\ head[id].status # "Finished") =>
            head[id].status = IF head[id].plan.payload_type = "Private"
                                THEN "TallyStarted" ELSE "Voting"]_vars

\* a Private plan whose tally had started was finished by a tally with a
\* Private proof
C17_Witness ==
  /\ last.op = "apply_committee_result"
  /\ last.ret.kind = "Ok"
  /\ last.id \in DOMAIN receiver
  /\ receiver[last.id].plan.payload_type = "Private"
  /\ receiver[last.id].status = "TallyStarted"
  /\ head[last.id].status = "Finished"

(***************************************************************************)
(* Properties of the tally.                                                *)
(***************************************************************************)
\* C14: a tally for a Private plan, in a block of the current date, is
\* accepted, and the plan Finished, only when the shares it carries come
\* from at least TallyThreshold distinct members; with shares of fewer
\* members the tally with a Private proof is rejected with a VoteError, no
\* ledger is returned and the plan is not Finished.
C14_ThresholdShares ==
  \A id \in DOMAIN head, sig \in TallyProofs :
    \A tally \in VoteTallies(id) :
      LET r == apply_committee_result(head, now, tally, sig)
          m == head[id]
          members == collected_shares(tally.shares)
      IN  m.plan.payload_type = "Private" =>
            /\ r.ret.kind = "Ok" =>
                 /\ sig.type = "Private"
                 /\ Cardinality(members) >= TallyThreshold
                 /\ r.ret.plans[id].status = "Finished"
            /\ (/\ sig.type = "Private"
                /\ tally.tally_type = "Private"
                /\ Cardinality(members) < TallyThreshold) =>
                 /\ r.ret.kind = "VoteError"
                 /\ r.ret.id = id
                 /\ "plans" \notin DOMAIN r.ret
                 /\ r.self = head
                 /\ (m.status = "TallyStarted" =>
                       r.ret.reason = "NotEnoughShares")

\* a private tally that was short of shares was rejected; the plan is in
\* TallyStarted as before
C14_Witness ==
  /\ last.op = "apply_committee_result"
  /\ last.id \in DOMAIN head
  /\ last.ret = [kind |-> "VoteError", id |-> last.id,
                 reason |-> "NotEnoughShares"]
  /\ head[last.id].plan.payload_type = "Private"
  /\ head[last.id].status = "TallyStarted"
  /\ head = receiver

Tallied(h, id) ==
  LET d == h[id].plan.vote_end
  IN  IF h[id].plan.payload_type = "Public"
        THEN apply_committee_result(
               h, d, [id |-> id, tally_type |-> "Public", shares |-> <<>>],
               [type |-> "Public", id |-> "c1"]).ret
        ELSE LET started ==
                   apply_encrypted_vote_tally(h, d, [id |-> id], "c1").ret
             IN  IF started.kind # "Ok"
                   THEN started
                   ELSE apply_committee_result(
                          started.plans, d,
                          [id |-> id, tally_type |-> "Private",
                           shares |-> <<1, 2>>],
                          [type |-> "Private", id |-> "c1"]).ret

\* C20: when an account casts two votes for the same proposal in blocks of
\* the current date and both are accepted, one after the other, the ledger
\* is the one the second vote alone gives, and the tally of the plan counts
\* the stake of the account for the second choice and not for the first, for
\* Public and for Private plans.
C20_LastVoteWins ==
  \A d \in {now}, id \in DOMAIN head, a \in Accounts :
    \A c1 \in VoteCasts(id), c2 \in VoteCasts(id) :
      LET r1 == apply_vote(head, d, a, c1).ret
      IN  (c1.proposal_index = c2.proposal_index /\ r1.kind = "Ok") =>
            LET r2 == apply_vote(r1.plans, d, a, c2).ret
                i == c2.proposal_index
            IN  r2.kind = "Ok" =>
                  LET final == Tallied(r2.plans, id)
                      others == [head[id].votes[i] EXCEPT ![a] = NoChoice]
                  IN  /\ r2 = apply_vote(head, d, a, c2).ret
                      /\ final.kind = "Ok"
                      /\ final.plans[id].status = "Finished"
                      /\ final.plans[id].result[i][c2.payload.choice + 1] =
                           Some(Stake(a)
                                  + StakeFor(c2.payload.choice, others, Accounts))
                      /\ c1.payload.choice # c2.payload.choice =>
                           final.plans[id].result[i][c1.payload.choice + 1] =
                             Some(StakeFor(c1.payload.choice, others, Accounts))

\* an account that had voted for choice 0 of a proposal of a Private plan
\* voted for choice 1, and the manager holds the vote for choice 1
C20_Witness ==
  /\ last.op = "apply_vote"
  /\ last.ret.kind = "Ok"
  /\ last.id \in DOMAIN receiver
  /\ head[last.id].plan.payload_type = "Private"
  /\ \E a \in Accounts :
       /\ receiver[last.id].votes[0][a] = 0
       /\ head[last.id].votes[0][a] = 1
  /\ Tallied(head, last.id).kind = "Ok"
  /\ Tallied(head, last.id).plans[last.id].result[0] = <<Some(0), Some(10)>>

\* C40: apply_committee_result returns a value, Ok or a VoteError, for
\* every TallyProof and every VoteTally: a private proof with a tally that
\* carries no decrypted shares is rejected with a VoteError, the call does
\* not abort.
C40_AlwaysReturns ==
  /\ last.op = "apply_committee_result" =>
       last.ret.kind \in {"Ok", "VoteError"}
  /\ \A id \in CertIds, sig \in TallyProofs :
       \A tally \in VoteTallies(id) :
         apply_committee_result(head, now, tally, sig).ret.kind
           \in {"Ok", "VoteError"}

\* C39: each successful operation of the ledger changes exactly one entry.
\* add_vote_plan adds one new plan id and leaves every manager that was
\* stored as it was; apply_vote, apply_encrypted_vote_tally and
\* apply_committee_result keep the plan ids and replace nothing but the
\* manager stored under the plan id the certificate names; no step removes
\* a plan, the set of the plan ids only grows.
C39_OneEntryChanged ==
  [][/\ DOMAIN head \subseteq DOMAIN head'
     /\ (last'.op = "add_vote_plan" /\ last'.ret.kind = "Ok") =>
          /\ last'.id \notin DOMAIN head
          /\ DOMAIN head' = DOMAIN head \cup {last'.id}
          /\ \A id \in DOMAIN head : head'[id] = head[id]
     /\ (/\ last'.op \in {"apply_vote", "apply_encrypted_vote_tally",
                           "apply_committee_result"}
         /\ last'.ret.kind = "Ok") =>
          /\ last'.id \in DOMAIN head
          /\ DOMAIN head' = DOMAIN head
          /\ \A id \in DOMAIN head \ {last'.id} : head'[id] = head[id]
     /\ last'.ret.kind # "Ok" => head' = head]_vars

\* a committee result was applied to one of two stored plans
C39_Witness ==
  /\ Cardinality(DOMAIN head) = 2
  /\ last.op = "apply_committee_result"
  /\ last.ret.kind = "Ok"
  /\ \E id \in DOMAIN head : head[id].status = "Voting"

====
